---- MODULE Spec2Model ----
(***************************************************************************)
(* GridBug: the parametric bin-assembly pipeline (replicad worker), the    *)
(* grid-area calculator, and the query layer in front of the worker.       *)
(*                                                                         *)
(* Lengths are fixed-point integers in hundredths of a millimetre, so      *)
(* 42mm = 4200, 0.5mm = 50, 4.75mm = 475.  Inputs are chosen so that every *)
(* halving the code performs (width / 2, TOLERANCE / 2) is exact.          *)
(***************************************************************************)
EXTENDS Integers, Sequences, FiniteSets, TLC

(***************************************************************************)
(* Arithmetic helpers (Math.floor, Math.ceil, Math.round, Math.min/max).   *)
(***************************************************************************)
MathFloor(a, b) == a \div b

MathCeil(a, b) == 0 - ((0 - a) \div b)

MathRound(a, b) == (2 * a + b) \div (2 * b)

MathMin(a, b) == IF a < b THEN a ELSE b

MathMax(a, b) == IF a > b THEN a ELSE b

SetMin(S) == CHOOSE m \in S : \A n \in S : m <= n

SetMax(S) == CHOOSE m \in S : \A n \in S : m >= n

Range(s) == {s[i] : i \in 1..Len(s)}

(***************************************************************************)
(* utils/grid.ts                                                           *)
(***************************************************************************)
GRID_SIZE == 4200

TOLERANCE == 50

Pt(x, y) == [x |-> x, y |-> y]

(* Math.cos / Math.sin of the rotation field, in thousandths.  The code    *)
(* passes the stored rotation straight to Math.cos, i.e. reads it as       *)
(* radians: cos(90) = -0.448, sin(90) = 0.894.                             *)
MathCos(rotation) == IF rotation = 0 THEN 1000 ELSE 0 - 448

MathSin(rotation) == IF rotation = 0 THEN 0 ELSE 894

transformPoint(point, position, rotation) ==
    LET cos == MathCos(rotation)
        sin == MathSin(rotation)
        dx == point.x - position.x
        dy == point.y - position.y
    IN  Pt((dx * cos - dy * sin) \div 1000 + position.x,
           (dx * sin + dy * cos) \div 1000 + position.y)

(* calculateSplineBounds: the control points, widened by the extremes of   *)
(* the fitted cubic segments.  The extremes are roots of a quadratic with  *)
(* irrational coefficients (centripetal parameterisation), so the amount   *)
(* by which the curve overshoots its control points is carried as the      *)
(* outline's bulge field: any value >= 0 the fit can produce.              *)
calculateSplineBounds(points, bulge) ==
    [minX |-> SetMin({p.x : p \in Range(points)}) - bulge,
     minY |-> SetMin({p.y : p \in Range(points)}) - bulge,
     maxX |-> SetMax({p.x : p \in Range(points)}) + bulge,
     maxY |-> SetMax({p.y : p \in Range(points)}) + bulge]

OutlineBounds(outline) ==
    IF outline.type = "spline"
    THEN LET transformedPoints ==
                 [i \in 1..Len(outline.points) |->
                     transformPoint(outline.points[i], outline.position,
                                    outline.rotation)]
         IN  calculateSplineBounds(transformedPoints, outline.bulge)
    ELSE LET halfWidth == outline.width \div 2
             halfHeight == outline.height \div 2
             radius == outline.radius
             cornerCenters ==
                 {Pt(0 - halfWidth + radius, 0 - halfHeight + radius),
                  Pt(halfWidth - radius, 0 - halfHeight + radius),
                  Pt(halfWidth - radius, halfHeight - radius),
                  Pt(0 - halfWidth + radius, halfHeight - radius)}
             transformedCenters ==
                 {transformPoint(c, outline.position, outline.rotation) :
                     c \in cornerCenters}
         IN  [minX |-> SetMin({p.x : p \in transformedCenters}) - radius,
              minY |-> SetMin({p.y : p \in transformedCenters}) - radius,
              maxX |-> SetMax({p.x : p \in transformedCenters}) + radius,
              maxY |-> SetMax({p.y : p \in transformedCenters}) + radius]

SnapMin_Ceil(v) ==
    MathCeil(v - TOLERANCE \div 2, GRID_SIZE) * GRID_SIZE + TOLERANCE \div 2

SnapMin(v) ==
    MathFloor(v - TOLERANCE \div 2, GRID_SIZE) * GRID_SIZE + TOLERANCE \div 2

SnapMax_NoTolerance(v) == MathCeil(v, GRID_SIZE) * GRID_SIZE

SnapMax(v) ==
    MathCeil(v + TOLERANCE \div 2, GRID_SIZE) * GRID_SIZE - TOLERANCE \div 2

(* min and max over the per-outline bounds, before snapping.               *)
CombinedBounds(outlines) ==
    LET transformedBounds == {OutlineBounds(o) : o \in Range(outlines)}
    IN  [min |-> Pt(SetMin({b.minX : b \in transformedBounds}),
                    SetMin({b.minY : b \in transformedBounds})),
         max |-> Pt(SetMax({b.maxX : b \in transformedBounds}),
                    SetMax({b.maxY : b \in transformedBounds}))]

(* minGrid and maxGrid.                                                    *)
SnapOutward(min, max) ==
    [min |-> Pt(SnapMin(min.x), SnapMin(min.y)),
     max |-> Pt(SnapMax(max.x), SnapMax(max.y))]

calculateMinimalGridArea(outlines) ==
    IF Len(outlines) = 0
    THEN [min |-> Pt(0, 0),
          max |-> Pt(GRID_SIZE - TOLERANCE, GRID_SIZE - TOLERANCE)]
    ELSE SnapOutward(CombinedBounds(outlines).min,
                     CombinedBounds(outlines).max)

(***************************************************************************)
(* Outlines as the editor stores them.  depth is <<>> when the field is    *)
(* absent (addRoundedRect / addOutline never set it) and <<d>> otherwise;  *)
(* selected stands for the display-only fields.                            *)
(***************************************************************************)
RoundedRect(id, width, height, radius, x, y, rotation, depth) ==
    [type |-> "roundedRect", id |-> id, width |-> width, height |-> height,
     radius |-> radius, position |-> Pt(x, y), rotation |-> rotation,
     depth |-> depth, points |-> <<>>, bulge |-> 0, selected |-> FALSE]

Spline(id, points, bulge, x, y, rotation, depth) ==
    [type |-> "spline", id |-> id, width |-> 0, height |-> 0, radius |-> 0,
     position |-> Pt(x, y), rotation |-> rotation, depth |-> depth,
     points |-> points, bulge |-> bulge, selected |-> FALSE]

(***************************************************************************)
(* workers/replicad/replicadWorker.ts: the geometric builders.  A kernel   *)
(* solid is represented by the construction that produced it: a profile,   *)
(* the plane it was sketched on and the extrusion distance, or the loft    *)
(* sections, or the operands of a cut / fuse.                              *)
(***************************************************************************)
drawRoundedRectangle(width, height, radius) ==
    [shape |-> "roundedRectangle", width |-> width, height |-> height,
     radius |-> radius, inset2 |-> 0]

drawCircle(radius) ==
    [shape |-> "circle", width |-> 2 * radius, height |-> 2 * radius,
     radius |-> radius, inset2 |-> 0]

(* profile.offset(-d / 2): inset2 accumulates d, twice the inward offset.  *)
OffsetInward(profile, d) == [profile EXCEPT !.inset2 = @ + d]

(* shape.sketchOnPlane("XY", plane).extrude(distance) *)
Extrude(profile, plane, distance) ==
    [kind |-> "extrusion", profile |-> profile, plane |-> plane,
     distance |-> distance]

(***************************************************************************)
(* utils/spline.ts: the closed Catmull-Rom curve through an outline's      *)
(* points as cubic Bezier segments.  Square roots are floored to whole     *)
(* units: distances to hundredths of a millimetre, the centripetal         *)
(* parameter (the square root of the distance) to hundredths of its unit.  *)
(***************************************************************************)
RECURSIVE SqrtBetween(_, _, _)
SqrtBetween(v, lo, hi) ==
    IF lo >= hi THEN lo
    ELSE IF ((lo + hi + 1) \div 2) * ((lo + hi + 1) \div 2) <= v
         THEN SqrtBetween(v, (lo + hi + 1) \div 2, hi)
         ELSE SqrtBetween(v, lo, (lo + hi + 1) \div 2 - 1)

MathSqrt(v) == SqrtBetween(v, 0, 46340)

(* Math.pow(dx * dx + dy * dy, alpha * 0.5) with alpha = 0.5               *)
getT(p1, p2) ==
    MathSqrt(MathSqrt((p2.x - p1.x) * (p2.x - p1.x) +
                      (p2.y - p1.y) * (p2.y - p1.y)) * 10000)

(* cp1 and cp2 from the parameter steps d01 = t1 - t0, d12 = t2 - t1 and   *)
(* d23 = t3 - t2.                                                          *)
ControlPoints(p0, p1, p2, p3, d01, d12, d23) ==
    [cp1 |-> Pt(p1.x + ((p2.x - p0.x) * d12) \div ((d01 + d12) * 3),
                p1.y + ((p2.y - p0.y) * d12) \div ((d01 + d12) * 3)),
     cp2 |-> Pt(p2.x - ((p3.x - p1.x) * d12) \div ((d12 + d23) * 3),
                p2.y - ((p3.y - p1.y) * d12) \div ((d12 + d23) * 3))]

catmullToBezier(p0, p1, p2, p3) ==
    ControlPoints(p0, p1, p2, p3, getT(p0, p1), getT(p1, p2), getT(p2, p3))

(* [last point, all points, first point, second point]                     *)
AllPoints(points) ==
    <<points[Len(points)]>> \o points \o <<points[1], points[2]>>

(* for (let i = 1; i < allPoints.length - 2; i++)                          *)
CurveIndices_Open(allPoints) == 1..(Len(allPoints) - 4)

CurveIndices(allPoints) == 1..(Len(allPoints) - 3)

(* One cubic segment: its two control points and its end point.            *)
Curve(controls, end) ==
    [cp1 |-> controls.cp1, cp2 |-> controls.cp2, end |-> end]

CurveAt(allPoints, i) ==
    Curve(catmullToBezier(allPoints[i], allPoints[i + 1],
                          allPoints[i + 2], allPoints[i + 3]),
          allPoints[i + 2])

(* The path of the 2D editor: M start, one C per segment, Z.  '' is <<>>.  *)
generateSplinePath(points) ==
    IF Len(points) < 2 THEN <<>>
    ELSE <<[start |-> points[1],
            curves |-> [i \in CurveIndices(AllPoints(points)) |->
                           CurveAt(AllPoints(points), i)],
            closed |-> TRUE]>>

MirrorX(p) == Pt(0 - p.x, p.y)

(* replicad.draw([-startPoint.x, startPoint.y]), then one                  *)
(* cubicBezierCurveTo(end, cp1, cp2) per segment with every X negated,     *)
(* then close().                                                           *)
MirrorCurve(curve) ==
    [cp1 |-> MirrorX(curve.cp1), cp2 |-> MirrorX(curve.cp2),
     end |-> MirrorX(curve.end)]

SplineSketch(points) ==
    [start |-> MirrorX(points[1]),
     curves |-> [i \in CurveIndices(AllPoints(points)) |->
                    MirrorCurve(CurveAt(AllPoints(points), i))],
     closed |-> TRUE]

(* The point lists of the traced outlines used as inputs, and their        *)
(* sketches, evaluated once.                                               *)
Square == <<Pt(0 - 1000, 0 - 1000), Pt(1000, 0 - 1000), Pt(1000, 1000),
            Pt(0 - 1000, 1000)>>

Triangle == <<Pt(0, 0), Pt(3000, 500), Pt(1000, 2500)>>

TracedSketches == [points \in {Square, Triangle} |-> SplineSketch(points)]

SketchOf(points) ==
    IF points \in DOMAIN TracedSketches THEN TracedSketches[points]
    ELSE SplineSketch(points)

DesiredDepth(obj) ==
    IF obj.depth = <<>> \/ obj.depth[1] = 0 THEN 2000 ELSE obj.depth[1]

CutoutDepth(obj, wallHeight) == MathMin(DesiredDepth(obj), wallHeight)

createCutoutExtrusion_(obj, min, max, wallHeight) ==
    LET width == max.x - min.x
        height == max.y - min.y
        posX == 0 - (obj.position.x - min.x - width \div 2)
        posY == obj.position.y - min.y - height \div 2
        shape ==
            IF obj.type = "roundedRect"
            THEN IF obj.radius * 2 = obj.width /\ obj.radius * 2 = obj.height
                 THEN drawCircle(obj.radius)
                 ELSE drawRoundedRectangle(obj.width, obj.height, obj.radius)
            ELSE [shape |-> "spline",
                  knots |-> [i \in 1..Len(obj.points) |->
                                Pt(0 - obj.points[i].x, obj.points[i].y)],
                  bulge |-> obj.bulge,
                  sketch |-> SketchOf(obj.points)]
        cutoutShape == [profile |-> shape, rotate |-> 0 - obj.rotation,
                        x |-> posX, y |-> posY]
        cutoutDepth == CutoutDepth(obj, wallHeight)
    IN  Extrude(cutoutShape, wallHeight - cutoutDepth, cutoutDepth)

(***************************************************************************)
(* workers/replicad/memoize.ts wraps each builder.  Its signature keeps    *)
(* the outline's identifier and every numeric / geometric field and drops  *)
(* the display-only ones.                                                  *)
(***************************************************************************)
Signature_NoDepth(o) ==
    [type |-> o.type, id |-> o.id, width |-> o.width, height |-> o.height,
     radius |-> o.radius, position |-> o.position, rotation |-> o.rotation,
     depth |-> <<>>, points |-> o.points, bulge |-> o.bulge]

Signature(o) ==
    [type |-> o.type, id |-> o.id, width |-> o.width, height |-> o.height,
     radius |-> o.radius, position |-> o.position, rotation |-> o.rotation,
     depth |-> o.depth, points |-> o.points, bulge |-> o.bulge]

(* trace records, in order, the <<layer, key>> of every call that missed   *)
(* its cache and ran the wrapped builder.                                  *)
memoize_One(memo, layer, key, fresh) ==
    IF key \in DOMAIN memo[layer]
    THEN [value |-> memo[layer][key], memo |-> memo]
    ELSE [value |-> fresh.value,
          memo |-> [fresh.memo EXCEPT ![layer] = (key :> fresh.value),
                                      !.trace = Append(@, <<layer, key>>)]]

memoize(memo, layer, key, fresh) ==
    IF key \in DOMAIN memo[layer]
    THEN [value |-> memo[layer][key], memo |-> memo]
    ELSE [value |-> fresh.value,
          memo |-> [fresh.memo EXCEPT ![layer] = (key :> fresh.value) @@ @,
                                      !.trace = Append(@, <<layer, key>>)]]

EmptyMemo ==
    [bin |-> <<>>, base |-> <<>>, unit |-> <<>>, cutout |-> <<>>,
     trace |-> <<>>]

CutoutKey(obj, min, max, wallHeight) ==
    <<Signature(obj), min, max, wallHeight>>

createCutoutExtrusion(memo, obj, min, max, wallHeight) ==
    memoize(memo, "cutout", CutoutKey(obj, min, max, wallHeight),
            [value |-> createCutoutExtrusion_(obj, min, max, wallHeight),
             memo |-> memo])

RECURSIVE CutEach(_, _, _, _, _, _)
CutEach(acc, outlines, i, min, max, wallHeight) ==
    IF i > Len(outlines)
    THEN acc
    ELSE LET r == createCutoutExtrusion(acc.memo, outlines[i], min, max,
                                        wallHeight)
         IN  CutEach([value |-> [acc.value EXCEPT
                                    !.cuts = Append(@, r.value)],
                      memo |-> r.memo],
                     outlines, i + 1, min, max, wallHeight)

createWallsWithCutouts(memo, outlines, baseRect, min, max, wallHeight) ==
    CutEach([value |-> [kind |-> "walls",
                        blank |-> Extrude(baseRect, 0, wallHeight),
                        cuts |-> <<>>],
             memo |-> memo],
            outlines, 1, min, max, wallHeight)

createBaseUnit_(baseHeight, outerDim, radius) ==
    LET topProfile == drawRoundedRectangle(outerDim, outerDim, radius)
        middleProfile == OffsetInward(topProfile, 215)
        bottomProfile == OffsetInward(middleProfile, 80)
        topHeight == baseHeight
        middleHeight == topHeight - 215
        flatHeight == middleHeight - 180
        bottomHeight == 0
    IN  [kind |-> "loft",
         sections |-> <<[profile |-> topProfile, z |-> topHeight],
                        [profile |-> middleProfile, z |-> middleHeight],
                        [profile |-> middleProfile, z |-> flatHeight],
                        [profile |-> bottomProfile, z |-> bottomHeight]>>]

createBaseUnit(memo, baseHeight, outerDim, radius) ==
    memoize(memo, "unit", <<baseHeight, outerDim, radius>>,
            [value |-> createBaseUnit_(baseHeight, outerDim, radius),
             memo |-> memo])

createBottom(width, height, radius, baseHeight) ==
    Extrude(drawRoundedRectangle(width, height, radius), baseHeight, 100)

(* Math.round(width / GRID_SIZE), Math.round(height / GRID_SIZE)           *)
NumUnits_Floor(length) == MathFloor(length, GRID_SIZE)

NumUnits(length) == MathRound(length, GRID_SIZE)

(* startX / startY: the centre of the first tile.                          *)
StartOffset_Corner(length, outerDim) == 0 - length \div 2

StartOffset(length, outerDim) == 0 - length \div 2 + outerDim \div 2

createBase_(memo, width, height, radius, baseHeight) ==
    LET outerDim == GRID_SIZE - TOLERANCE
        bottomModel == createBottom(width, height, radius, baseHeight)
        baseUnit == createBaseUnit(memo, baseHeight, outerDim, radius)
        numUnitsX == NumUnits(width)
        numUnitsY == NumUnits(height)
        startX == StartOffset(width, outerDim)
        startY == StartOffset(height, outerDim)
    IN  [value |-> [kind |-> "base", bottom |-> bottomModel,
                    unit |-> baseUnit.value,
                    numUnitsX |-> numUnitsX, numUnitsY |-> numUnitsY,
                    tiles |-> {Pt(startX + x * GRID_SIZE,
                                  startY + y * GRID_SIZE) :
                                 x \in 0..(numUnitsX - 1),
                                 y \in 0..(numUnitsY - 1)}],
         memo |-> baseUnit.memo]

createBase(memo, width, height, radius, baseHeight) ==
    memoize(memo, "base", <<width, height, radius, baseHeight>>,
            createBase_(memo, width, height, radius, baseHeight))

WallHeight_NoBottom(totalHeight, baseHeight) == totalHeight - baseHeight

WallHeight(totalHeight, baseHeight) == totalHeight - baseHeight - 100

(* createBin_ once calculateMinimalGridArea has returned { min, max }.      *)
createBinIn(memo, outlines, min, max, totalHeight, baseHeight) ==
    LET width == max.x - min.x
        height == max.y - min.y
        BIN_CORNER_RADIUS == 375
        wallHeight == WallHeight(totalHeight, baseHeight)
        bottomThickness == 100
        baseModel == createBase(memo, width, height, BIN_CORNER_RADIUS,
                                baseHeight)
        baseRect == drawRoundedRectangle(width, height, BIN_CORNER_RADIUS)
        wallsModel == createWallsWithCutouts(baseModel.memo, outlines,
                                             baseRect, min, max, wallHeight)
    IN  [value |-> [kind |-> "bin", base |-> baseModel.value,
                    walls |-> wallsModel.value,
                    wallsZ |-> baseHeight + bottomThickness],
         memo |-> wallsModel.memo]

createBin_(memo, outlines, totalHeight, baseHeight) ==
    createBinIn(memo, outlines, calculateMinimalGridArea(outlines).min,
                calculateMinimalGridArea(outlines).max, totalHeight,
                baseHeight)

BinKey(outlines, totalHeight, baseHeight) ==
    <<[i \in 1..Len(outlines) |-> Signature(outlines[i])],
      totalHeight, baseHeight>>

createBin(memo, outlines, totalHeight, baseHeight) ==
    memoize(memo, "bin", BinKey(outlines, totalHeight, baseHeight),
            createBin_(memo, outlines, totalHeight, baseHeight))

(* The build with no cache at all: what the un-memoized builders return.   *)
FreshBin(outlines, totalHeight, baseHeight) ==
    createBin_(EmptyMemo, outlines, totalHeight, baseHeight).value

(* finalModel.mesh({...}), finalModel.meshEdges(), model.blobSTEP(): pure  *)
(* reads of the solid.                                                     *)
Mesh(solid) == [faces |-> <<"faces", solid>>, edges |-> <<"edges", solid>>]

BlobSTEP(solid) == <<"step", solid>>

(***************************************************************************)
(* Z-extents of the kernel solids: an extrusion spans from its plane to    *)
(* plane + distance (downward when the distance is negative), a loft spans *)
(* its sections, a fuse spans both operands.                               *)
(***************************************************************************)
Interval(a, b) == [lo |-> MathMin(a, b), hi |-> MathMax(a, b)]

Hull(i, j) == [lo |-> MathMin(i.lo, j.lo), hi |-> MathMax(i.hi, j.hi)]

ExtrusionZ(e) == Interval(e.plane, e.plane + e.distance)

LoftZ(unit) ==
    [lo |-> SetMin({unit.sections[i].z : i \in 1..Len(unit.sections)}),
     hi |-> SetMax({unit.sections[i].z : i \in 1..Len(unit.sections)})]

BaseZ(base) ==
    IF base.tiles = {} THEN ExtrusionZ(base.bottom)
    ELSE Hull(ExtrusionZ(base.bottom), LoftZ(base.unit))

WallsZ(bin) ==
    [lo |-> ExtrusionZ(bin.walls.blank).lo + bin.wallsZ,
     hi |-> ExtrusionZ(bin.walls.blank).hi + bin.wallsZ]

BinZ(bin) == Hull(BaseZ(bin.base), WallsZ(bin))

(***************************************************************************)
(* State.                                                                  *)
(*   Worker (replicadWorker.ts): the module-level initialization flag and  *)
(*   promise, the promises created so far (one per bootstrap attempt), the *)
(*   kernel instance injected into replicad, the memoization caches, the   *)
(*   calls received over Comlink with the point each has reached, and the  *)
(*   log of kernel invocations.                                            *)
(*   Viewer (ReplicadViewer.tsx, replicadQueries.ts): the store's outline  *)
(*   list, the bin height and whether the slider set it, the query cache,  *)
(*   the requests sent to the worker and not yet answered, the requests    *)
(*   issued so far and the order their responses arrived in.               *)
(*   Build: one build request and the values computed from it.             *)
(*   Editor (PropertiesPanel.tsx): the panel's local properties state and  *)
(*   the number of edits made so far.                                      *)
(***************************************************************************)
VARIABLES isReplicadInitialized, initializationPromise, promises, ocSet,
          memo, calls, log,
          outlines, binHeight, userAdjustedHeight, queries, pending, issued,
          answered,
          input, gridArea, finalModel,
          properties, edits,
          ready, imageInputs, imageEmbeddings, currentImageUrl,
          isProcessingImage, samCalls

workerVars == <<isReplicadInitialized, initializationPromise, promises,
                ocSet, memo, calls, log>>

viewerVars == <<outlines, binHeight, userAdjustedHeight, queries, pending,
                issued, answered>>

buildVars == <<input, gridArea, finalModel>>

editorVars == <<properties, edits>>

samVars == <<ready, imageInputs, imageEmbeddings, currentImageUrl,
             isProcessingImage, samCalls>>

vars == <<workerVars, viewerVars, buildVars, editorVars, samVars>>

(***************************************************************************)
(* Bounds and the inputs requests are drawn from.                          *)
(***************************************************************************)
MaxCalls == 3

RectA == RoundedRect("a", 8000, 6000, 1500, 0, 0, 0, <<1000>>)

RectADeep == RoundedRect("a", 8000, 6000, 1500, 0, 0, 0, <<1500>>)

RectB == RoundedRect("b", 2000, 2000, 1000, 5000, 1000, 0, <<>>)

WorkerOutlineLists == {<<>>, <<RectA, RectB>>, <<RectADeep, RectB>>}

ExportOutlineLists == {<<>>, <<RectA, RectB>>}

WorkerHeights == {2100}

(***************************************************************************)
(* The worker.  A Comlink call runs synchronously up to its first await;   *)
(* continuations are microtasks and run before the next message or         *)
(* bootstrap completion is handled.                                        *)
(***************************************************************************)
NoWorker ==
    /\ isReplicadInitialized = FALSE
    /\ initializationPromise = 0
    /\ promises = <<>>
    /\ ocSet = FALSE
    /\ memo = EmptyMemo
    /\ calls = <<>>
    /\ log = <<>>

Pending(p) == promises[p] = "pending"

Runnable(c) ==
    \/ c.pc = "awaitModel"
    \/ c.pc = "awaitInit" /\ ~Pending(c.awaits)

MicrotasksPending == \E i \in 1..Len(calls) : Runnable(calls[i])

(* The microtask queue is first-in first-out: the continuations of the     *)
(* callers awaiting a settled bootstrap run in call order, and each queues *)
(* its own next continuation behind them.                                  *)
NextMicrotask(i) ==
    /\ Runnable(calls[i])
    /\ \A j \in 1..Len(calls) :
          Runnable(calls[j]) =>
             \/ calls[j].pc = calls[i].pc /\ i <= j
             \/ calls[j].pc # calls[i].pc /\ calls[i].pc = "awaitInit"

(* The bootstrap in flight when a call arrives, 0 if none.                 *)
InFlight ==
    IF \E p \in 1..Len(promises) : Pending(p)
    THEN CHOOSE p \in 1..Len(promises) : Pending(p)
    ELSE 0

(* initializeReplicad(): the promise the caller awaits (0: returns at      *)
(* once), the new value of initializationPromise and of the promise list.  *)
StartsBootstrap_Always == TRUE

StartsBootstrap == initializationPromise = 0

initializeReplicad ==
    IF isReplicadInitialized
    THEN [awaits |-> 0, promise |-> initializationPromise,
          promises |-> promises]
    ELSE IF StartsBootstrap
         THEN [awaits |-> Len(promises) + 1, promise |-> Len(promises) + 1,
               promises |-> Append(promises, "pending")]
         ELSE [awaits |-> initializationPromise,
               promise |-> initializationPromise, promises |-> promises]

Call(op, outl, totalHeight, baseHeight) ==
    [op |-> op, outlines |-> outl, totalHeight |-> totalHeight,
     baseHeight |-> baseHeight, pc |-> "done", awaits |-> 0,
     inFlight |-> InFlight, seen |-> promises, model |-> <<>>,
     threw |-> "", state |-> "pending", value |-> <<>>]

Arrive(c) ==
    /\ Len(calls) < MaxCalls
    /\ ~MicrotasksPending
    /\ calls' = Append(calls, c)

(* async initialize() *)
CallInitialize ==
    LET r == initializeReplicad
        c == Call("initialize", <<>>, 0, 0)
    IN  /\ Arrive(IF r.awaits = 0
                  THEN [c EXCEPT !.state = "resolved"]
                  ELSE [c EXCEPT !.pc = "awaitInit", !.awaits = r.awaits])
        /\ initializationPromise' = r.promise
        /\ promises' = r.promises
        /\ UNCHANGED <<isReplicadInitialized, ocSet, memo, log>>
        /\ UNCHANGED <<viewerVars, buildVars, editorVars, samVars>>

(* async isReady() *)
CallIsReady ==
    /\ Arrive([Call("isReady", <<>>, 0, 0) EXCEPT
                  !.state = "resolved", !.value = <<isReplicadInitialized>>])
    /\ UNCHANGED <<isReplicadInitialized, initializationPromise, promises,
                   ocSet, memo, log>>
    /\ UNCHANGED <<viewerVars, buildVars, editorVars, samVars>>

(* if (outlines.length === 0) in generateModel and exportSTEP *)
NoOutlines_Never(outl) == FALSE

NoOutlines(outl) == Len(outl) = 0

(* if (!isReplicadInitialized) in createModel *)
MustInitialize_Never == FALSE

MustInitialize == ~isReplicadInitialized

(* this.createBin(outlines, totalHeight, baseHeight) on behalf of call i   *)
(* createBin as it would run if it gave up the thread after the base: a   *)
(* waiting request's createBin runs in between.                            *)
RunCreateBin_Reentrant(i, c) ==
    LET others == {j \in 1..Len(calls) :
                      j # i /\ calls[j].pc = "awaitInit" /\
                      calls[j].outlines # <<>>}
        j == CHOOSE n \in others : TRUE
        area == calculateMinimalGridArea(c.outlines)
        base == createBase(memo, area.max.x - area.min.x,
                           area.max.y - area.min.y, 375, c.baseHeight)
        rj == createBin(base.memo, calls[j].outlines, calls[j].totalHeight,
                        calls[j].baseHeight)
        ri == createBin(rj.memo, c.outlines, c.totalHeight, c.baseHeight)
    IN  /\ others # {}
        /\ i <= Len(calls)
        /\ memo' = ri.memo
        /\ log' = log \o
              <<[call |-> i, op |-> "createBin", oc |-> ocSet,
                 solid |-> ri.value,
                 built |-> SubSeq(base.memo.trace, Len(memo.trace) + 1,
                                  Len(base.memo.trace)) \o
                           SubSeq(ri.memo.trace, Len(rj.memo.trace) + 1,
                                  Len(ri.memo.trace)),
                 cached |-> FALSE],
                [call |-> j, op |-> "createBin", oc |-> ocSet,
                 solid |-> rj.value,
                 built |-> SubSeq(rj.memo.trace, Len(base.memo.trace) + 1,
                                  Len(rj.memo.trace)),
                 cached |-> FALSE]>>
        /\ calls' = [n \in 1..Len(calls) |->
              IF n = i THEN [c EXCEPT !.pc = "awaitModel",
                                      !.model = <<ri.value>>]
              ELSE IF n = j THEN [calls[j] EXCEPT !.pc = "awaitModel",
                                                  !.model = <<rj.value>>]
              ELSE calls[n]]

RunCreateBin(i, c) ==
    LET r == createBin(memo, c.outlines, c.totalHeight, c.baseHeight)
    IN  /\ memo' = r.memo
        /\ log' = Append(log, [call |-> i, op |-> "createBin", oc |-> ocSet,
                               solid |-> r.value,
                               built |-> SubSeq(r.memo.trace,
                                                Len(memo.trace) + 1,
                                                Len(r.memo.trace)),
                               cached |-> BinKey(c.outlines, c.totalHeight,
                                                 c.baseHeight)
                                            \in DOMAIN memo.bin])
        /\ calls' = IF i > Len(calls)
                    THEN Append(calls, [c EXCEPT !.pc = "awaitModel",
                                                 !.model = <<r.value>>])
                    ELSE [calls EXCEPT ![i] = [c EXCEPT
                                                  !.pc = "awaitModel",
                                                  !.model = <<r.value>>]]

(* The kernel operations of createBin_ taken to throw: the loft of the     *)
(* base unit (nothing built yet) and the first wall cut (base and first    *)
(* cutout built); any other stage leaves the caches as ThrownAt gives.     *)
KernelStages == {"loft", "cut"}

(* The caches left behind when the kernel throws at a stage: the memoized  *)
(* builders that had already returned keep their entries, the ones the     *)
(* exception unwinds through store nothing.                                *)
ThrownAt(stage, cache, c, min, max) ==
    IF stage = "loft" THEN cache
    ELSE IF stage = "cut"
         THEN createCutoutExtrusion(
                  createBase(cache, max.x - min.x, max.y - min.y, 375,
                             c.baseHeight).memo,
                  c.outlines[1], min, max,
                  WallHeight(c.totalHeight, c.baseHeight)).memo
         ELSE createWallsWithCutouts(
                  createBase(cache, max.x - min.x, max.y - min.y, 375,
                             c.baseHeight).memo,
                  c.outlines,
                  drawRoundedRectangle(max.x - min.x, max.y - min.y, 375),
                  min, max, WallHeight(c.totalHeight, c.baseHeight)).memo

(* No builder, nor createModel, catches: the exception reaches the caller  *)
(* of createModel.                                                         *)
Propagates_BestEffort(stage) == FALSE

Propagates(stage) == TRUE

Thrown(i, c, stage, cache) ==
    /\ memo' = cache
    /\ log' = Append(log, [call |-> i, op |-> "createBinThrew", oc |-> ocSet,
                           solid |-> <<>>,
                           built |-> SubSeq(cache.trace, Len(memo.trace) + 1,
                                            Len(cache.trace)),
                           cached |-> FALSE])
    /\ calls' = IF i > Len(calls)
                THEN Append(calls, [c EXCEPT !.pc = "awaitModel",
                                             !.threw = stage])
                ELSE [calls EXCEPT ![i] = [c EXCEPT !.pc = "awaitModel",
                                                    !.threw = stage]]

(* this.createBin(...) on behalf of call i when a kernel operation throws. *)
RunCreateBinThrows(i, c, stage) ==
    IF Propagates(stage)
    THEN Thrown(i, c, stage,
                ThrownAt(stage, memo, c,
                         calculateMinimalGridArea(c.outlines).min,
                         calculateMinimalGridArea(c.outlines).max))
    ELSE /\ calls' = [n \in 1..MathMax(i, Len(calls)) |->
                IF n = i
                THEN [c EXCEPT !.pc = "awaitModel",
                               !.model = <<FreshBin(<<c.outlines[1]>>,
                                                    c.totalHeight,
                                                    c.baseHeight)>>]
                ELSE calls[n]]
         /\ UNCHANGED <<memo, log>>

Build(i, c) ==
    \/ RunCreateBin(i, c)
    \/ \E stage \in KernelStages : RunCreateBinThrows(i, c, stage)

(* generateModel / exportSTEP up to the first await (createModel).         *)
CallBuild(op, outl, totalHeight) ==
    LET c == Call(op, outl, totalHeight, 475)
    IN  /\ Len(calls) < MaxCalls
        /\ ~MicrotasksPending
        /\ IF NoOutlines(outl)
           THEN /\ calls' = Append(calls,
                      IF op = "generateModel"
                      THEN [c EXCEPT !.state = "resolved",
                                     !.value = <<"null">>]
                      ELSE [c EXCEPT !.state = "rejected",
                                     !.value = <<"No outlines provided for STEP export">>])
                /\ UNCHANGED <<isReplicadInitialized, initializationPromise,
                               promises, ocSet, memo, log>>
           ELSE IF MustInitialize
                THEN LET r == initializeReplicad
                     IN  /\ calls' = Append(calls,
                                IF r.awaits = 0
                                THEN [c EXCEPT !.pc = "awaitInit"]
                                ELSE [c EXCEPT !.pc = "awaitInit",
                                               !.awaits = r.awaits])
                         /\ initializationPromise' = r.promise
                         /\ promises' = r.promises
                         /\ UNCHANGED <<isReplicadInitialized, ocSet, memo,
                                        log>>
                ELSE /\ Build(Len(calls) + 1, c)
                     /\ UNCHANGED <<isReplicadInitialized,
                                    initializationPromise, promises, ocSet>>
        /\ UNCHANGED <<viewerVars, buildVars, editorVars, samVars>>

CallGenerateModel ==
    \E outl \in WorkerOutlineLists, h \in WorkerHeights :
        CallBuild("generateModel", outl, h)

CallExportSTEP ==
    \E outl \in ExportOutlineLists, h \in WorkerHeights :
        CallBuild("exportSTEP", outl, h)

(* await opencascade(...) resolved: replicad.setOC(OC), flag set.          *)
BootstrapSucceed ==
    /\ ~MicrotasksPending
    /\ \E p \in 1..Len(promises) :
          /\ Pending(p)
          /\ promises' = [promises EXCEPT ![p] = "fulfilled"]
    /\ ocSet' = TRUE
    /\ isReplicadInitialized' = TRUE
    /\ UNCHANGED <<initializationPromise, memo, calls, log>>
    /\ UNCHANGED <<viewerVars, buildVars, editorVars, samVars>>

(* await opencascade(...) rejected: the catch block resets the promise    *)
(* and rethrows.                                                           *)
BootstrapRejects ==
    /\ ~MicrotasksPending
    /\ \E p \in 1..Len(promises) :
          /\ Pending(p)
          /\ promises' = [promises EXCEPT ![p] = "rejected"]
    /\ UNCHANGED <<isReplicadInitialized, ocSet, memo, calls, log>>
    /\ UNCHANGED <<viewerVars, buildVars, editorVars, samVars>>

BootstrapFail_NoReset ==
    /\ BootstrapRejects
    /\ UNCHANGED initializationPromise

BootstrapFail ==
    /\ BootstrapRejects
    /\ initializationPromise' = 0

(* The continuation of await initializeReplicad().                         *)
ResumeAfterInit ==
    \E i \in 1..Len(calls) :
        LET c == calls[i]
            ok == c.awaits = 0 \/ promises[c.awaits] = "fulfilled"
        IN  /\ c.pc = "awaitInit"
            /\ NextMicrotask(i)
            /\ IF c.op = "initialize"
               THEN /\ calls' = [calls EXCEPT ![i] =
                          IF ok
                          THEN [c EXCEPT !.pc = "done", !.state = "resolved"]
                          ELSE [c EXCEPT !.pc = "done", !.state = "rejected",
                                  !.value = <<"Failed to initialize replicad: ">>]]
                    /\ UNCHANGED <<memo, log>>
               ELSE IF ok
                    THEN Build(i, c)
                    ELSE /\ calls' = [calls EXCEPT ![i] =
                               [c EXCEPT !.pc = "done", !.state = "rejected",
                                  !.value =
                                     IF c.op = "exportSTEP"
                                     THEN <<"Failed to generate STEP file: ">>
                                     ELSE <<"bootstrap error">>]]
                         /\ UNCHANGED <<memo, log>>
            /\ UNCHANGED <<isReplicadInitialized, initializationPromise,
                           promises, ocSet>>
            /\ UNCHANGED <<viewerVars, buildVars, editorVars, samVars>>

(* The model a call goes on to mesh or export: its own finalModel.         *)
OwnModel_Shared(i) ==
    log[SetMax({k \in 1..Len(log) : log[k].op = "createBin"})].solid

OwnModel(i) == calls[i].model[1]

(* The continuation of await this.createModel(...): mesh or export.        *)
ResumeAfterModel ==
    \E i \in 1..Len(calls) :
        LET c == calls[i]
        IN  /\ c.pc = "awaitModel"
            /\ NextMicrotask(i)
            /\ IF c.threw # ""
               THEN /\ calls' = [calls EXCEPT ![i] =
                          [c EXCEPT !.pc = "done", !.state = "rejected",
                                    !.value =
                                       IF c.op = "exportSTEP"
                                       THEN <<"Failed to generate STEP file: ">>
                                       ELSE <<"kernel error">>]]
                    /\ UNCHANGED log
               ELSE /\ calls' = [calls EXCEPT ![i] =
                          [c EXCEPT !.pc = "done", !.state = "resolved",
                                    !.value = IF c.op = "generateModel"
                                              THEN <<Mesh(OwnModel(i))>>
                                              ELSE <<BlobSTEP(OwnModel(i))>>]]
                    /\ log' = Append(log, [call |-> i,
                                           op |-> IF c.op = "generateModel"
                                                  THEN "mesh" ELSE "blobSTEP",
                                           oc |-> ocSet,
                                           solid |-> OwnModel(i),
                                           built |-> <<>>, cached |-> FALSE])
            /\ UNCHANGED <<isReplicadInitialized, initializationPromise,
                           promises, ocSet, memo>>
            /\ UNCHANGED <<viewerVars, buildVars, editorVars, samVars>>

NoViewer ==
    /\ outlines = <<>>
    /\ binHeight = 0
    /\ userAdjustedHeight = FALSE
    /\ queries = <<>>
    /\ pending = {}
    /\ issued = <<>>
    /\ answered = <<>>

NoBuild ==
    /\ input = <<>>
    /\ gridArea = <<>>
    /\ finalModel = <<>>

NoEditor ==
    /\ properties = <<>>
    /\ edits = 0

NoSam ==
    /\ ready = FALSE
    /\ imageInputs = <<>>
    /\ imageEmbeddings = <<>>
    /\ currentImageUrl = <<>>
    /\ isProcessingImage = FALSE
    /\ samCalls = <<>>

Init == NoWorker /\ NoViewer /\ NoBuild /\ NoEditor /\ NoSam

Next ==
    \/ CallInitialize
    \/ CallIsReady
    \/ CallGenerateModel
    \/ CallExportSTEP
    \/ BootstrapSucceed
    \/ BootstrapFail
    \/ ResumeAfterInit
    \/ ResumeAfterModel

Spec == Init /\ [][Next]_vars

(***************************************************************************)
(* Properties of the worker.                                               *)
(***************************************************************************)
Fulfilled(ps) == \E p \in 1..Len(ps) : ps[p] = "fulfilled"

BuildOp(c) == c.op \in {"generateModel", "exportSTEP"}

NeedsKernel(c) ==
    \/ c.op = "initialize"
    \/ BuildOp(c) /\ c.outlines # <<>>

(* C1: at most one kernel bootstrap is in progress at a time; every        *)
(* initialize / generateModel / exportSTEP caller that needs the kernel    *)
(* and arrives while a bootstrap is in flight awaits that same bootstrap;  *)
(* and no bootstrap is started after one has succeeded.                    *)
C1_SingleSharedBootstrap ==
    /\ Cardinality({p \in 1..Len(promises) : Pending(p)}) <= 1
    /\ \A i \in 1..Len(calls) :
          (NeedsKernel(calls[i]) /\ calls[i].inFlight # 0) =>
              calls[i].awaits = calls[i].inFlight
    /\ \A p \in 1..Len(promises) :
          promises[p] = "fulfilled" => p = Len(promises)

C1_Witness ==
    /\ Len(promises) >= 2
    /\ promises[Len(promises)] = "fulfilled"
    /\ \E i, j \in 1..Len(calls) :
          /\ i < j
          /\ calls[i].awaits = Len(promises)
          /\ calls[j].awaits = Len(promises)
          /\ calls[j].inFlight = Len(promises)
          /\ calls[i].op # calls[j].op

(* C2: createBin, mesh and blobSTEP are invoked only once a bootstrap has  *)
(* injected the kernel, and a request whose bootstrap failed rejects       *)
(* without any kernel invocation on its behalf.                            *)
C2_KernelOnlyAfterBootstrap ==
    /\ \A k \in 1..Len(log) : log[k].oc /\ Fulfilled(promises)
    /\ \A i \in 1..Len(calls) :
          (BuildOp(calls[i]) /\ calls[i].awaits # 0
             /\ promises[calls[i].awaits] = "rejected") =>
              /\ \A k \in 1..Len(log) : log[k].call # i
              /\ calls[i].pc = "done" => calls[i].state = "rejected"

C2_Witness ==
    \E i, j \in 1..Len(calls) :
        /\ BuildOp(calls[i]) /\ calls[i].state = "rejected"
        /\ calls[i].awaits # 0
        /\ promises[calls[i].awaits] = "rejected"
        /\ BuildOp(calls[j]) /\ calls[j].state = "resolved"
        /\ calls[j].awaits # 0
        /\ \E k \in 1..Len(log) : log[k].call = j /\ log[k].op = "createBin"

(* C3: when a bootstrap fails every caller awaiting it is rejected,        *)
(* isReady() answers false until some bootstrap has succeeded and true     *)
(* afterwards, the module never keeps a failed promise, and an             *)
(* initialize() that arrives with no kernel and no bootstrap in flight     *)
(* starts a fresh attempt.                                                 *)
C3_FailureResetsInitialization ==
    /\ \A i \in 1..Len(calls) :
          (calls[i].awaits # 0 /\ promises[calls[i].awaits] = "rejected"
             /\ calls[i].pc = "done") => calls[i].state = "rejected"
    /\ initializationPromise # 0 =>
          promises[initializationPromise] # "rejected"
    /\ isReplicadInitialized = Fulfilled(promises)
    /\ \A i \in 1..Len(calls) :
          calls[i].op = "isReady" =>
              calls[i].value = <<Fulfilled(calls[i].seen)>>
    /\ \A i \in 1..Len(calls) :
          (calls[i].op = "initialize" /\ ~Fulfilled(calls[i].seen)
             /\ calls[i].inFlight = 0) =>
              calls[i].awaits = Len(calls[i].seen) + 1

C3_Witness ==
    /\ Len(promises) >= 2
    /\ promises[1] = "rejected"
    /\ promises[2] = "fulfilled"
    /\ \E i, j, k \in 1..Len(calls) :
          /\ calls[i].op = "initialize" /\ calls[i].awaits = 1
          /\ calls[i].state = "rejected"
          /\ calls[j].op = "initialize" /\ calls[j].awaits = 2
          /\ calls[j].state = "resolved"
          /\ calls[k].op = "isReady" /\ calls[k].value = <<TRUE>>

(* C4: a generateModel call with an empty outline list resolves to null    *)
(* and an exportSTEP call with an empty list rejects, both at once, and    *)
(* the step that handles the call leaves the initialization state, the     *)
(* caches and the kernel log unchanged.                                    *)
EmptyArrival ==
    /\ Len(calls') = Len(calls) + 1
    /\ BuildOp(calls'[Len(calls')])
    /\ calls'[Len(calls')].outlines = <<>>

C4_EmptyListShortCircuit ==
    [][EmptyArrival =>
         LET c == calls'[Len(calls')]
         IN  /\ c.pc = "done"
             /\ c.op = "generateModel" =>
                   (c.state = "resolved" /\ c.value = <<"null">>)
             /\ c.op = "exportSTEP" => c.state = "rejected"
             /\ UNCHANGED <<isReplicadInitialized, initializationPromise,
                            promises, ocSet, memo, log>>]_vars

C4_Witness ==
    \E i, j \in 1..Len(calls) :
        /\ calls[i].op = "generateModel" /\ calls[i].outlines = <<>>
        /\ calls[i].state = "resolved" /\ calls[i].value = <<"null">>
        /\ calls[j].op = "exportSTEP" /\ calls[j].outlines = <<>>
        /\ calls[j].state = "rejected"
        /\ memo.bin # <<>>

(* C7: every generateModel answer is the mesh of the solid a fresh,        *)
(* cache-free build of the request's own inputs produces, so two calls     *)
(* with the same inputs return the same buffers whatever was served in     *)
(* between and whether or not the cache was hit.                           *)
Answered(c) ==
    c.op = "generateModel" /\ c.outlines # <<>> /\ c.state = "resolved"

C7_SameInputsSameMesh ==
    /\ \A i \in 1..Len(calls) :
          Answered(calls[i]) =>
              calls[i].value =
                 <<Mesh(FreshBin(calls[i].outlines, calls[i].totalHeight,
                                 calls[i].baseHeight))>>
    /\ \A i, j \in 1..Len(calls) :
          (Answered(calls[i]) /\ Answered(calls[j])
             /\ calls[i].outlines = calls[j].outlines
             /\ calls[i].totalHeight = calls[j].totalHeight
             /\ calls[i].baseHeight = calls[j].baseHeight) =>
              calls[i].value = calls[j].value

C7_Witness ==
    \E i, j \in 1..Len(calls) :
        /\ i < j
        /\ Answered(calls[i]) /\ Answered(calls[j])
        /\ calls[i].outlines = calls[j].outlines
        /\ \E k \in 1..Len(log) :
              log[k].call = j /\ log[k].op = "createBin" /\ log[k].cached
        /\ \E k \in 1..Len(log) :
              log[k].call = i /\ log[k].op = "createBin" /\ ~log[k].cached

(***************************************************************************)
(* One build request taken through the pure pipeline: the grid area as     *)
(* PropertiesPanel, centerView and createBin_ compute it, and the bin as   *)
(* generateModel builds it (non-empty outline lists only).                 *)
(***************************************************************************)
MaxBuildOutlines == 2

BuildOutlines ==
    {RoundedRect("a", 8000, 6000, 1500, 0, 0, 0, <<2000>>),
     RoundedRect("b", 2000, 2000, 1000, 5000, 1000, 0, <<>>),
     RoundedRect("c", 3000, 1000, 200, 0 - 3000, 4000, 90, <<25000>>),
     RoundedRect("d", 100, 100, 0, 2100, 2100, 0, <<100>>),
     Spline("e", Square, 0, 0, 0, 0, <<1000>>),
     Spline("f", Square, 300, 6000, 0 - 2000, 90, <<>>),
     RoundedRect("g", 8350, 8350, 375, 0, 0, 0, <<>>),
     RoundedRect("h", 1000, 1000, 0, 0, 0, 0, <<0>>),
     Spline("t", Triangle, 200, 0, 0, 0, <<500>>)}

RECURSIVE ListsUpTo(_)
ListsUpTo(n) ==
    IF n = 0 THEN {<<>>}
    ELSE ListsUpTo(n - 1) \cup
         {Append(l, o) : l \in {m \in ListsUpTo(n - 1) : Len(m) = n - 1},
                         o \in BuildOutlines}

BuildHeights == {500, 600, 700, 2000, 2100, 2800}

(* baseHeight is a parameter of generateModel / exportSTEP: the hooks      *)
(* default it to 4.75, and the worker takes any number.                    *)
DefaultBaseInputs ==
    [outlines : ListsUpTo(MaxBuildOutlines),
     totalHeight : BuildHeights, baseHeight : {475}]

LowBaseInputs ==
    {[outlines |-> <<o>>, totalHeight |-> 700, baseHeight |-> b] :
        o \in BuildOutlines, b \in {300, 395}}

InitBuild ==
    /\ NoWorker
    /\ NoViewer
    /\ NoEditor
    /\ NoSam
    /\ input \in DefaultBaseInputs \cup LowBaseInputs
    /\ gridArea = <<>>
    /\ finalModel = <<>>

ComputeGridArea ==
    /\ gridArea = <<>>
    /\ gridArea' = <<calculateMinimalGridArea(input.outlines)>>
    /\ UNCHANGED <<input, finalModel>>
    /\ UNCHANGED <<workerVars, viewerVars, editorVars, samVars>>

BuildBin ==
    /\ finalModel = <<>>
    /\ ~NoOutlines(input.outlines)
    /\ finalModel' = <<FreshBin(input.outlines, input.totalHeight,
                                input.baseHeight)>>
    /\ UNCHANGED <<input, gridArea>>
    /\ UNCHANGED <<workerVars, viewerVars, editorVars, samVars>>

NextBuild == ComputeGridArea \/ BuildBin

SpecBuild == InitBuild /\ [][NextBuild]_vars

(* C8: for baseHeight < totalHeight the assembled bin spans exactly        *)
(* [0, totalHeight] in Z: base unit [0, baseHeight], bottom plate          *)
(* [baseHeight, baseHeight + 1mm], walls [baseHeight + 1mm, baseHeight +   *)
(* 1mm + wallHeight], each layer starting where the one below ends.        *)
C8_ZExtentIsTotalHeight ==
    (finalModel # <<>> /\ input.baseHeight < input.totalHeight) =>
        LET bin == finalModel[1]
            wallHeight == WallHeight(input.totalHeight, input.baseHeight)
        IN  /\ BinZ(bin) = [lo |-> 0, hi |-> input.totalHeight]
            /\ LoftZ(bin.base.unit) = [lo |-> 0, hi |-> input.baseHeight]
            /\ ExtrusionZ(bin.base.bottom) =
                  [lo |-> input.baseHeight, hi |-> input.baseHeight + 100]
            /\ WallsZ(bin) = [lo |-> input.baseHeight + 100,
                              hi |-> input.baseHeight + 100 + wallHeight]
            /\ input.totalHeight = input.baseHeight + 100 + wallHeight

(* C9: the depth every cutout is extruded by lies in [0, wallHeight].      *)
C9_CutoutDepthClamped ==
    finalModel # <<>> =>
        LET bin == finalModel[1]
            wallHeight == WallHeight(input.totalHeight, input.baseHeight)
        IN  \A i \in 1..Len(bin.walls.cuts) :
               /\ 0 <= bin.walls.cuts[i].distance
               /\ bin.walls.cuts[i].distance <= wallHeight

(* C10: the width and the height of the grid area are each a whole number  *)
(* k >= 1 of grid cells less the tolerance, for every outline list         *)
(* including the empty one.                                                *)
WholeCells(length) ==
    /\ (length + TOLERANCE) % GRID_SIZE = 0
    /\ (length + TOLERANCE) \div GRID_SIZE >= 1

C10_GridAreaWholeCells ==
    gridArea # <<>> =>
        /\ WholeCells(gridArea[1].max.x - gridArea[1].min.x)
        /\ WholeCells(gridArea[1].max.y - gridArea[1].min.y)

C10_Witness ==
    /\ gridArea # <<>>
    /\ Len(input.outlines) = 2
    /\ \E o \in Range(input.outlines) : o.rotation # 0
    /\ gridArea[1].max.x - gridArea[1].min.x = 2 * GRID_SIZE - TOLERANCE
    /\ gridArea[1].max.y - gridArea[1].min.y = 4 * GRID_SIZE - TOLERANCE

(***************************************************************************)
(* The viewer: workers/replicad/replicadQueries.ts in front of the worker  *)
(* and components/3d/ReplicadViewer.tsx.  A cache key is the tuple of the  *)
(* fields the code joins into the key string.                              *)
(***************************************************************************)
MaxOutlines == 2

MaxRequests == 3

hashOutline(outline) ==
    IF outline.type = "roundedRect"
    THEN <<"rect", outline.id, outline.width, outline.height,
           outline.radius, outline.position.x, outline.position.y,
           outline.rotation>>
    ELSE <<"spline", outline.id, outline.position.x, outline.position.y,
           outline.rotation, outline.points>>

createOutlinesKey(outl) == [i \in 1..Len(outl) |-> hashOutline(outl[i])]

(* queryKey of useGenerateModel ("model") and useStepExport ("step")       *)
QueryKey(kind, outl, totalHeight, baseHeight) ==
    <<"replicad", kind, totalHeight, baseHeight, Len(outl),
      createOutlinesKey(outl)>>

(* The worker's generateCacheKey.                                          *)
generateCacheKey(outl, totalHeight, baseHeight) ==
    <<"model",
      [i \in 1..Len(outl) |->
          IF outl[i].type = "roundedRect"
          THEN <<"rect", outl[i].id, outl[i].width, outl[i].height,
                 outl[i].radius, outl[i].position.x, outl[i].position.y,
                 outl[i].rotation, outl[i].depth>>
          ELSE <<"spline", outl[i].id, outl[i].position.x,
                 outl[i].position.y, outl[i].rotation, outl[i].depth,
                 outl[i].points>>],
      totalHeight, baseHeight>>

(* The default height rounded down to the unit instead of up.              *)
calculateDefaultBinHeight_RoundedDown(outl) ==
    LET BASE_HEIGHT == 475
        BOTTOM_THICKNESS == 100
        UNIT_SIZE == 700
        maxDepth == IF Len(outl) > 0
                    THEN SetMax({IF o.depth = <<>> \/ o.depth[1] = 0
                                 THEN 2000 ELSE o.depth[1] :
                                    o \in Range(outl)})
                    ELSE 2000
    IN  MathFloor(maxDepth + BOTTOM_THICKNESS + BASE_HEIGHT, UNIT_SIZE)
           * UNIT_SIZE

calculateDefaultBinHeight(outl) ==
    LET BASE_HEIGHT == 475
        BOTTOM_THICKNESS == 100
        UNIT_SIZE == 700
        maxDepth == IF Len(outl) > 0
                    THEN SetMax({IF o.depth = <<>> \/ o.depth[1] = 0
                                 THEN 2000 ELSE o.depth[1] :
                                    o \in Range(outl)})
                    ELSE 2000
    IN  MathCeil(maxDepth + BOTTOM_THICKNESS + BASE_HEIGHT, UNIT_SIZE)
           * UNIT_SIZE

(* The query client as one value, so that a render can be applied to the   *)
(* result of the render before it.                                         *)
QueryClient ==
    [queries |-> queries, pending |-> pending, issued |-> issued]

(* useQuery fetches when the key has no entry: an entry that is being      *)
(* fetched is shared, and one that has data never goes stale.              *)
StartsFetch(client, key) == key \notin DOMAIN client.queries

(* One render of useGenerateModel(outlines, binHeight, 4.75, enabled) with *)
(* the viewer active and the slider at rest.                               *)
useGenerateModel(client, outl, totalHeight, baseHeight) ==
    IF Len(outl) > 0
       /\ StartsFetch(client, QueryKey("model", outl, totalHeight,
                                       baseHeight))
    THEN [queries |->
              (QueryKey("model", outl, totalHeight, baseHeight)
                  :> [status |-> "pending", data |-> <<>>])
              @@ client.queries,
          pending |-> client.pending \cup {Len(client.issued) + 1},
          issued |-> Append(client.issued,
                        [key |-> QueryKey("model", outl, totalHeight,
                                          baseHeight),
                         outlines |-> outl, totalHeight |-> totalHeight,
                         baseHeight |-> baseHeight,
                         inFlight |-> client.pending])]
    ELSE client

(* The effect on [defaultHeight, userAdjustedHeight, isDragging].          *)
HeightEffect(outl) ==
    IF userAdjustedHeight THEN binHeight
    ELSE calculateDefaultBinHeight(outl)

Rendered(outl, totalHeight, client) ==
    /\ outlines' = outl
    /\ binHeight' = totalHeight
    /\ queries' = client.queries
    /\ pending' = client.pending
    /\ issued' = client.issued

(* The store's outline list changed: the viewer renders with the new list  *)
(* and the old height, the height effect runs, and the viewer renders      *)
(* again with the height the effect set.                                   *)
StoreChanged(outl) ==
    /\ Len(issued) + 2 <= MaxRequests
    /\ Rendered(outl, HeightEffect(outl),
                useGenerateModel(
                    useGenerateModel(QueryClient, outl, binHeight, 475),
                    outl, HeightEffect(outl), 475))
    /\ UNCHANGED <<userAdjustedHeight, answered>>
    /\ UNCHANGED <<workerVars, buildVars, editorVars, samVars>>

NewId(n) == <<"o1", "o2", "o3", "o4">>[n]

RectShapes == {<<8000, 6000, 1500>>}

(* store.addRoundedRect(width, height, radius): no depth field.            *)
AddRoundedRect ==
    /\ Len(outlines) < MaxOutlines
    /\ \E r \in RectShapes :
          StoreChanged(Append(outlines,
              RoundedRect(NewId(Len(outlines) + 1), r[1], r[2], r[3],
                          0, 0, 0, <<>>)))

(* store.addOutline(points, bitmap): a traced spline, no depth field.      *)
AddOutline ==
    /\ Len(outlines) < MaxOutlines
    /\ StoreChanged(Append(outlines,
           Spline(NewId(Len(outlines) + 1), Square, 0, 0, 0, 0, <<>>)))

PanelDepths == {1525, 2200}

(* PropertiesPanel handleChange('depth'): updateOutline(id, { depth }).    *)
SetDepth ==
    \E i \in 1..Len(outlines), d \in PanelDepths :
        /\ outlines[i].depth # <<d>>
        /\ StoreChanged([outlines EXCEPT ![i].depth = <<d>>])

SliderHeights == {2100, 3500}

(* handleSliderDragStart, handleSliderChange, handleSliderDragStop: the    *)
(* query is disabled while dragging and renders with the new height when   *)
(* the drag stops.                                                         *)
SliderSet ==
    \E h \in SliderHeights :
        /\ Len(issued) + 1 <= MaxRequests
        /\ Rendered(outlines, h,
                    useGenerateModel(QueryClient, outlines, h, 475))
        /\ userAdjustedHeight' = TRUE
        /\ UNCHANGED answered
        /\ UNCHANGED <<workerVars, buildVars, editorVars, samVars>>

(* The query a response is stored in: the one whose queryFn made the call. *)
ResponseKey_Current(r) == QueryKey("model", outlines, binHeight, 475)

ResponseKey(r) == issued[r].key

(* The worker answers a generateModel call.                                *)
Respond ==
    \E r \in pending :
        /\ queries' = [queries EXCEPT ![ResponseKey(r)] =
               [status |-> "success",
                data |-> <<Mesh(FreshBin(issued[r].outlines,
                                         issued[r].totalHeight,
                                         issued[r].baseHeight))>>]]
        /\ pending' = pending \ {r}
        /\ answered' = Append(answered, r)
        /\ UNCHANGED <<outlines, binHeight, userAdjustedHeight, issued>>
        /\ UNCHANGED <<workerVars, buildVars, editorVars, samVars>>

InitViewer ==
    /\ NoWorker
    /\ NoBuild
    /\ NoEditor
    /\ NoSam
    /\ outlines = <<>>
    /\ binHeight = calculateDefaultBinHeight(<<>>)
    /\ userAdjustedHeight = FALSE
    /\ queries = <<>>
    /\ pending = {}
    /\ issued = <<>>
    /\ answered = <<>>

NextViewer ==
    \/ AddRoundedRect
    \/ AddOutline
    \/ SetDepth
    \/ SliderSet
    \/ Respond

SpecViewer == InitViewer /\ [][NextViewer]_vars

(* data of the query observed for the current outlines and height.         *)
meshData ==
    IF QueryKey("model", outlines, binHeight, 475) \in DOMAIN queries
    THEN queries[QueryKey("model", outlines, binHeight, 475)].data
    ELSE <<>>

CurrentModel == Mesh(FreshBin(outlines, binHeight, 475))

SameInputs(r) ==
    /\ [i \in 1..Len(r.outlines) |-> Signature(r.outlines[i])] =
          [i \in 1..Len(outlines) |-> Signature(outlines[i])]
    /\ r.totalHeight = binHeight
    /\ r.baseHeight = 475

(* C5: a request that differs from the current inputs in any field that    *)
(* affects the solid (an outline's id, width, height, radius, position,    *)
(* rotation, depth or points, totalHeight, baseHeight) has a different     *)
(* query key and a different worker cache key, so the model shown is       *)
(* always the one built from the current inputs, after a change to a       *)
(* depth alone included.                                                   *)
C5_CacheKeysCoverEveryInput ==
    /\ \A n \in 1..Len(issued) :
          ~SameInputs(issued[n]) =>
              /\ issued[n].key # QueryKey("model", outlines, binHeight, 475)
              /\ generateCacheKey(issued[n].outlines, issued[n].totalHeight,
                                  issued[n].baseHeight)
                    # generateCacheKey(outlines, binHeight, 475)
    /\ meshData # <<>> => meshData[1] = CurrentModel

(* C6: when a request for the current inputs was issued while an older     *)
(* request was still in flight, then once both have been answered, in      *)
(* either order, the model shown is the one built from the current inputs. *)
C6_NewerResultWins ==
    \A b \in 1..Len(issued) :
        (/\ SameInputs(issued[b])
         /\ issued[b].inFlight # {}
         /\ b \notin pending
         /\ issued[b].inFlight \cap pending = {}) =>
            meshData = <<CurrentModel>>

Before(a, b) ==
    \E m, n \in 1..Len(answered) :
        m < n /\ answered[m] = a /\ answered[n] = b

C6_Witness ==
    \E a, b \in 1..Len(issued) :
        /\ a \in issued[b].inFlight
        /\ ~SameInputs(issued[a])
        /\ SameInputs(issued[b])
        /\ Before(b, a)
        /\ meshData = <<CurrentModel>>

(***************************************************************************)
(* Properties of the build, continued.                                     *)
(***************************************************************************)
BuiltArea == calculateMinimalGridArea(input.outlines)

(* C11: the base has as many tiles along each axis as the grid area has    *)
(* cells: numUnitsX * GRID_SIZE = width + TOLERANCE and numUnitsY *        *)
(* GRID_SIZE = height + TOLERANCE, one tile per cell.                      *)
C11_TilesMatchCells ==
    finalModel # <<>> =>
        LET base == finalModel[1].base
        IN  /\ base.numUnitsX * GRID_SIZE =
                  BuiltArea.max.x - BuiltArea.min.x + TOLERANCE
            /\ base.numUnitsY * GRID_SIZE =
                  BuiltArea.max.y - BuiltArea.min.y + TOLERANCE
            /\ Cardinality(base.tiles) = base.numUnitsX * base.numUnitsY

C11_Witness ==
    /\ finalModel # <<>>
    /\ finalModel[1].base.numUnitsX = 2
    /\ finalModel[1].base.numUnitsY = 4
    /\ Cardinality(finalModel[1].base.tiles) = 8

(***************************************************************************)
(* Properties of the worker's caches.                                      *)
(***************************************************************************)
(* Calls a and b differ only in the depth of outline k.                    *)
DepthOnlyChange(a, b, k) ==
    /\ a.totalHeight = b.totalHeight
    /\ a.baseHeight = b.baseHeight
    /\ Len(a.outlines) = Len(b.outlines)
    /\ k \in 1..Len(a.outlines)
    /\ a.outlines[k].depth # b.outlines[k].depth
    /\ [a.outlines[k] EXCEPT !.depth = <<>>] =
          [b.outlines[k] EXCEPT !.depth = <<>>]
    /\ \A m \in 1..Len(a.outlines) : m # k => a.outlines[m] = b.outlines[m]

CreateBinEntries == {p \in 1..Len(log) : log[p].op = "createBin"}

(* C12: when a build follows one that differs only in one outline's depth, *)
(* the grid area, the base solid and every other outline's cutout are the  *)
(* same, and the only builders that run are that outline's cutout and the  *)
(* bin: the base, the base unit and the other cutouts come from the cache. *)
C12_DepthChangeFrame ==
    \A p, q \in CreateBinEntries :
        \A k \in 1..Len(calls[log[q].call].outlines) :
            (p < q /\ DepthOnlyChange(calls[log[p].call],
                                      calls[log[q].call], k)) =>
                LET a == calls[log[p].call]
                    b == calls[log[q].call]
                    area == calculateMinimalGridArea(b.outlines)
                IN  /\ calculateMinimalGridArea(a.outlines) = area
                    /\ log[p].solid.base = log[q].solid.base
                    /\ \A m \in 1..Len(b.outlines) :
                          m # k => log[p].solid.walls.cuts[m] =
                                      log[q].solid.walls.cuts[m]
                    /\ Range(log[q].built) \subseteq
                          {<<"cutout",
                             CutoutKey(b.outlines[k], area.min, area.max,
                                       WallHeight(b.totalHeight,
                                                  b.baseHeight))>>,
                           <<"bin", BinKey(b.outlines, b.totalHeight,
                                           b.baseHeight)>>}

C12_Witness ==
    \E p, q \in CreateBinEntries :
        /\ p < q
        /\ DepthOnlyChange(calls[log[p].call], calls[log[q].call], 1)
        /\ Len(log[p].built) = 5
        /\ Len(log[q].built) = 2
        /\ log[p].solid.walls.cuts[1] # log[q].solid.walls.cuts[1]
        /\ log[p].solid # log[q].solid

(* C13: a build in which a kernel operation threw rejects with a reported  *)
(* error and returns no model, partial or otherwise; and every build that  *)
(* is answered, those after a failed one included, returns the mesh or the *)
(* STEP file of the complete bin for its own inputs.                       *)
C13_KernelFailureReported ==
    /\ \A i \in 1..Len(calls) :
          calls[i].threw # "" =>
              /\ calls[i].model = <<>>
              /\ calls[i].state # "resolved"
              /\ calls[i].pc = "done" =>
                    /\ calls[i].state = "rejected"
                    /\ calls[i].value \in
                          {<<"kernel error">>,
                           <<"Failed to generate STEP file: ">>}
    /\ \A j \in 1..Len(calls) :
          (BuildOp(calls[j]) /\ calls[j].outlines # <<>>
             /\ calls[j].state = "resolved") =>
              LET bin == FreshBin(calls[j].outlines, calls[j].totalHeight,
                                  calls[j].baseHeight)
              IN  calls[j].value = IF calls[j].op = "generateModel"
                                   THEN <<Mesh(bin)>>
                                   ELSE <<BlobSTEP(bin)>>

C13_Witness ==
    \E i, j \in 1..Len(calls) :
        /\ i < j
        /\ calls[i].threw = "cut"
        /\ calls[i].state = "rejected"
        /\ calls[j].state = "resolved"
        /\ calls[j].outlines = calls[i].outlines
        /\ \E p, q \in 1..Len(log) :
              /\ log[p].call = i /\ log[p].op = "createBinThrew"
              /\ Len(log[p].built) = 3
              /\ log[q].call = j /\ log[q].op = "createBin"
              /\ Len(log[q].built) = 2

(***************************************************************************)
(* The editing layer: components/2d/PropertiesPanel.tsx (handleChange),    *)
(* components/2d/RectTransformHandles.tsx (handleMouseMove) and the        *)
(* store's updateOutline, on one selected rounded rectangle.  Rotation is  *)
(* 0 and Alt is not pressed.                                               *)
(***************************************************************************)
MaxEdits == 4

PanelValues == {0, 500, 2000, 4000}

DragDeltas == {0 - 10000, 0 - 3000, 3000}

(* The effect on [selectedOutline]: the panel mirrors the selected outline *)
SyncProperties(outline) ==
    [width |-> outline.width, height |-> outline.height,
     radius |-> outline.radius]

(* App.tsx: addRoundedRect(80, 60, 15), then a click selects it.           *)
AddDefaultRect ==
    /\ outlines = <<>>
    /\ outlines' = <<[RoundedRect("o1", 8000, 6000, 1500, 0, 0, 0, <<>>)
                         EXCEPT !.selected = TRUE]>>
    /\ properties' = SyncProperties(outlines'[1])
    /\ UNCHANGED edits
    /\ UNCHANGED <<binHeight, userAdjustedHeight, queries, pending, issued,
                   answered>>
    /\ UNCHANGED <<workerVars, buildVars, samVars>>

(* handleChange: the minimum / maximum constraints on the typed value.     *)
ValidatedSize(value) == MathMax(100, value)

ValidatedRadius(value) ==
    MathMax(0, MathMin(MathMin(properties.width, properties.height) \div 2,
                       value))

Updated(outline) ==
    /\ edits < MaxEdits
    /\ edits' = edits + 1
    /\ outlines' = [outlines EXCEPT ![1] = outline]
    /\ properties' = SyncProperties(outline)
    /\ UNCHANGED <<binHeight, userAdjustedHeight, queries, pending, issued,
                   answered>>
    /\ UNCHANGED <<workerVars, buildVars, samVars>>

PanelSetWidth ==
    /\ outlines # <<>>
    /\ \E v \in PanelValues :
          Updated([outlines[1] EXCEPT
                      !.width = ValidatedSize(v)])

PanelSetHeight ==
    /\ outlines # <<>>
    /\ \E v \in PanelValues :
          Updated([outlines[1] EXCEPT
                      !.height = ValidatedSize(v)])

PanelSetRadius ==
    /\ outlines # <<>>
    /\ \E v \in PanelValues :
          Updated([outlines[1] EXCEPT !.radius = ValidatedRadius(v)])

(* handleMouseMove for a side handle dragged by d along its axis: the      *)
(* clamped movement, the new size and the new centre.                      *)
ClampedDrag(side, d, startSize, minSize) ==
    IF side \in {"left", "top"}
    THEN MathMin(d, startSize - minSize)
    ELSE MathMax(d, minSize - startSize)

DraggedSize(side, dx, startSize, minSize) ==
    MathMax(minSize, IF side \in {"left", "top"}
                     THEN startSize - dx ELSE startSize + dx)

HandleDrag ==
    /\ outlines # <<>>
    /\ \E side \in {"left", "right", "top", "bottom"}, d \in DragDeltas :
          LET o == outlines[1]
              minSize == o.radius * 2
              horizontal == side \in {"left", "right"}
              startSize == IF horizontal THEN o.width ELSE o.height
              dx == ClampedDrag(side, d, startSize, minSize)
              size == DraggedSize(side, dx, startSize, minSize)
          IN  Updated(IF horizontal
                      THEN [o EXCEPT !.width = size,
                                     !.position.x = @ + dx \div 2]
                      ELSE [o EXCEPT !.height = size,
                                     !.position.y = @ + dx \div 2])

InitEditor ==
    /\ NoWorker
    /\ NoViewer
    /\ NoBuild
    /\ NoEditor
    /\ NoSam

NextEditor ==
    \/ AddDefaultRect
    \/ PanelSetWidth
    \/ PanelSetHeight
    \/ PanelSetRadius
    \/ HandleDrag

SpecEditor == InitEditor /\ [][NextEditor]_vars

(* C14: every rounded rectangle in the store has radius <= min(width,      *)
(* height) / 2, whatever panel changes and handle drags were made.         *)
C14_RadiusWithinHalfSize ==
    \A i \in 1..Len(outlines) :
        outlines[i].type = "roundedRect" =>
            /\ 2 * outlines[i].radius <= outlines[i].width
            /\ 2 * outlines[i].radius <= outlines[i].height

(***************************************************************************)
(* Point-set reading of the wall solid.  A placed profile is read as its   *)
(* axis-aligned XY box (exact for an unrotated rectangle with square       *)
(* corners), an extrusion as that box over its Z interval, and             *)
(* solid.cut(tool) as set difference, on the cells that the faces of all   *)
(* the boxes involved divide space into.  Volumes are in units of 0.25mm   *)
(* cubed, which keeps them within 32 bits.                                 *)
(***************************************************************************)
(* The local box of a drawn shape, centred for rectangles and circles.     *)
LocalBox(shape) ==
    IF shape.shape = "spline"
    THEN [x0 |-> SetMin({k.x : k \in Range(shape.knots)}) - shape.bulge,
          x1 |-> SetMax({k.x : k \in Range(shape.knots)}) + shape.bulge,
          y0 |-> SetMin({k.y : k \in Range(shape.knots)}) - shape.bulge,
          y1 |-> SetMax({k.y : k \in Range(shape.knots)}) + shape.bulge]
    ELSE [x0 |-> 0 - shape.width \div 2, x1 |-> shape.width \div 2,
          y0 |-> 0 - shape.height \div 2, y1 |-> shape.height \div 2]

(* shape.rotate(angle, [0, 0]).translate(x, y): the box of the corners of  *)
(* the local box, rotated about the origin and moved.                      *)
PlacedBox(local, angle, x, y) ==
    LET corners == {Pt(cx, cy) : cx \in {local.x0, local.x1},
                                 cy \in {local.y0, local.y1}}
        turned == {transformPoint(Pt(c.x, c.y), Pt(0, 0), angle) :
                      c \in corners}
    IN  [x0 |-> SetMin({p.x : p \in turned}) + x,
         x1 |-> SetMax({p.x : p \in turned}) + x,
         y0 |-> SetMin({p.y : p \in turned}) + y,
         y1 |-> SetMax({p.y : p \in turned}) + y]

(* The XY box of a cutout's profile as createCutoutExtrusion_ places it.   *)
CutoutXY(cut) ==
    PlacedBox(LocalBox(cut.profile.profile), cut.profile.rotate,
              cut.profile.x, cut.profile.y)

(* The XY box of the wall blank: baseRect, centred on the origin.          *)
BlankXY(walls) == LocalBox(walls.blank.profile)

Box3(xy, z) ==
    [x0 |-> xy.x0 \div 25, x1 |-> xy.x1 \div 25,
     y0 |-> xy.y0 \div 25, y1 |-> xy.y1 \div 25,
     z0 |-> z.lo \div 25, z1 |-> z.hi \div 25]

CutoutBox(cut) == Box3(CutoutXY(cut), ExtrusionZ(cut))

BlankBox(walls) == Box3(BlankXY(walls), ExtrusionZ(walls.blank))

BoxVolume(b) == (b.x1 - b.x0) * (b.y1 - b.y0) * (b.z1 - b.z0)

Overlap(a, b) ==
    /\ MathMax(a.x0, b.x0) < MathMin(a.x1, b.x1)
    /\ MathMax(a.y0, b.y0) < MathMin(a.y1, b.y1)
    /\ MathMax(a.z0, b.z0) < MathMin(a.z1, b.z1)

Segments(V) ==
    {s \in V \X V : s[1] < s[2] /\ ~\E c \in V : s[1] < c /\ c < s[2]}

Cells(boxes) ==
    {[x0 |-> sx[1], x1 |-> sx[2], y0 |-> sy[1], y1 |-> sy[2],
      z0 |-> sz[1], z1 |-> sz[2]] :
        sx \in Segments({b.x0 : b \in boxes} \cup {b.x1 : b \in boxes}),
        sy \in Segments({b.y0 : b \in boxes} \cup {b.y1 : b \in boxes}),
        sz \in Segments({b.z0 : b \in boxes} \cup {b.z1 : b \in boxes})}

Within(c, b) ==
    /\ b.x0 <= c.x0 /\ c.x1 <= b.x1
    /\ b.y0 <= c.y0 /\ c.y1 <= b.y1
    /\ b.z0 <= c.z0 /\ c.z1 <= b.z1

RECURSIVE CellsVolume(_)
CellsVolume(cells) ==
    IF cells = {} THEN 0
    ELSE LET c == CHOOSE d \in cells : TRUE
         IN  BoxVolume(c) + CellsVolume(cells \ {c})

(* wallsModel = wallsModel.cut(cutoutExtrusion), for each cutout in list   *)
(* order, starting from the extruded blank.                                *)
RECURSIVE CutInOrder(_, _, _)
CutInOrder(solid, cuts, i) ==
    IF i > Len(cuts) THEN solid
    ELSE CutInOrder({c \in solid : ~Within(c, CutoutBox(cuts[i]))},
                    cuts, i + 1)

WallBoxes(walls) ==
    {BlankBox(walls)} \cup {CutoutBox(c) : c \in Range(walls.cuts)}

WallCells(walls) ==
    CutInOrder({c \in Cells(WallBoxes(walls)) : Within(c, BlankBox(walls))},
               walls.cuts, 1)

RemovedVolume(walls) ==
    BoxVolume(BlankBox(walls)) - CellsVolume(WallCells(walls))

RECURSIVE SumOfCutouts(_, _)
SumOfCutouts(cuts, i) ==
    IF i > Len(cuts) THEN 0
    ELSE BoxVolume(CutoutBox(cuts[i])) + SumOfCutouts(cuts, i + 1)

NonOverlapping(cuts) ==
    \A i, j \in 1..Len(cuts) :
        i < j => ~Overlap(CutoutBox(cuts[i]), CutoutBox(cuts[j]))

Orderings(list) ==
    {[i \in 1..Len(list) |-> list[p[i]]] :
        p \in {q \in [1..Len(list) -> 1..Len(list)] :
                  \A i, j \in 1..Len(list) : q[i] = q[j] => i = j}}

(* C15: when no two cutouts overlap, the volume the cuts remove from the   *)
(* wall blank is the sum of the cutouts' own volumes, and the wall solid   *)
(* is the same for every ordering of the outline list.                     *)
C15_CutoutsAddUp ==
    (finalModel # <<>> /\ NonOverlapping(finalModel[1].walls.cuts)) =>
        /\ RemovedVolume(finalModel[1].walls) =
              SumOfCutouts(finalModel[1].walls.cuts, 1)
        /\ \A other \in Orderings(input.outlines) :
              WallCells(FreshBin(other, input.totalHeight,
                                 input.baseHeight).walls) =
                 WallCells(finalModel[1].walls)

(***************************************************************************)
(* The worked example: the default rectangle, 80 x 60 with radius 15 at    *)
(* the origin, depth 20, built with totalHeight 20 and baseHeight 4.75.    *)
(***************************************************************************)
DefaultRectInput ==
    [outlines |-> <<RoundedRect("a", 8000, 6000, 1500, 0, 0, 0, <<2000>>)>>,
     totalHeight |-> 2000, baseHeight |-> 475]

(* The XY footprint of a bin: the wall blank, centred on the origin, over  *)
(* a base of numUnitsX x numUnitsY tiles.                                  *)
Footprint(bin) ==
    [width |-> BlankXY(bin.walls).x1 - BlankXY(bin.walls).x0,
     height |-> BlankXY(bin.walls).y1 - BlankXY(bin.walls).y0,
     cellsX |-> bin.base.numUnitsX, cellsY |-> bin.base.numUnitsY]

(* C16: for the default rectangle the request is not the empty one, the    *)
(* model's Z-extent is 20mm, and its footprint is the grid area computed   *)
(* for the outline, which is 2 x 2 grid cells: 83.5mm x 83.5mm, from       *)
(* -41.75 to 41.75 on both axes.                                           *)
C16_DefaultRectModel ==
    input = DefaultRectInput =>
        /\ ~NoOutlines(input.outlines)
        /\ finalModel # <<>> =>
              /\ BinZ(finalModel[1]) = [lo |-> 0, hi |-> 2000]
              /\ BuiltArea = [min |-> Pt(0 - 4175, 0 - 4175),
                              max |-> Pt(4175, 4175)]
              /\ Footprint(finalModel[1]) =
                    [width |-> BuiltArea.max.x - BuiltArea.min.x,
                     height |-> BuiltArea.max.y - BuiltArea.min.y,
                     cellsX |-> 2, cellsY |-> 2]

C16_Witness ==
    /\ input = DefaultRectInput
    /\ finalModel # <<>>
    /\ gridArea = <<BuiltArea>>

(* C16 as first stated: the footprint of that model is a single grid cell. *)
C16_SingleCellFootprint ==
    (input = DefaultRectInput /\ finalModel # <<>>) =>
        Footprint(finalModel[1]) =
            [width |-> GRID_SIZE - TOLERANCE, height |-> GRID_SIZE - TOLERANCE,
             cellsX |-> 1, cellsY |-> 1]

(***************************************************************************)
(* The segmentation worker (samWorker.ts).  Embeddings and processor       *)
(* inputs are tagged with the URL of the image they were computed from;    *)
(* null is <<>>.  A call runs from its entry to its first await in one     *)
(* step, and from one await to the next in one step.                       *)
(***************************************************************************)
MaxSamCalls == 3

ImageUrls == {"u1", "u2"}

SamCall(op, url, pc) == [op |-> op, url |-> url, pc |-> pc]

Awaiting == {"initialize", "read", "processor", "embeddings"}

(* processImage up to its first await: the two early returns, then the     *)
(* flag and the URL are set before anything is computed.                   *)
ProcessImage(url) ==
    /\ Len(samCalls) < MaxSamCalls
    /\ IF isProcessingImage
       THEN /\ samCalls' = Append(samCalls,
                                  SamCall("processImage", url, "resolved"))
            /\ UNCHANGED <<isProcessingImage, currentImageUrl>>
       ELSE IF currentImageUrl = <<url>> /\ imageEmbeddings # <<>>
       THEN /\ samCalls' = Append(samCalls,
                                  SamCall("processImage", url, "resolved"))
            /\ UNCHANGED <<isProcessingImage, currentImageUrl>>
       ELSE /\ isProcessingImage' = TRUE
            /\ currentImageUrl' = <<url>>
            /\ samCalls' = Append(samCalls,
                  SamCall("processImage", url,
                          IF ready THEN "read" ELSE "initialize"))
    /\ UNCHANGED <<ready, imageInputs, imageEmbeddings>>
    /\ UNCHANGED <<workerVars, viewerVars, buildVars, editorVars>>

CallProcessImage == \E url \in ImageUrls : ProcessImage(url)

(* await this.initialize() returned: the model and processor are loaded.   *)
InitializeDone ==
    \E i \in 1..Len(samCalls) :
        /\ samCalls[i].pc = "initialize"
        /\ ready' = TRUE
        /\ samCalls' = [samCalls EXCEPT ![i].pc = "read"]
        /\ UNCHANGED <<imageInputs, imageEmbeddings, currentImageUrl,
                       isProcessingImage>>
        /\ UNCHANGED <<workerVars, viewerVars, buildVars, editorVars>>

(* await transformers.RawImage.read(imageUrl) returned.                    *)
ReadDone ==
    \E i \in 1..Len(samCalls) :
        /\ samCalls[i].pc = "read"
        /\ samCalls' = [samCalls EXCEPT ![i].pc = "processor"]
        /\ UNCHANGED <<ready, imageInputs, imageEmbeddings, currentImageUrl,
                       isProcessingImage>>
        /\ UNCHANGED <<workerVars, viewerVars, buildVars, editorVars>>

(* this.imageInputs = await this.processor(image)                          *)
ProcessorDone ==
    \E i \in 1..Len(samCalls) :
        /\ samCalls[i].pc = "processor"
        /\ imageInputs' = <<samCalls[i].url>>
        /\ samCalls' = [samCalls EXCEPT ![i].pc = "embeddings"]
        /\ UNCHANGED <<ready, imageEmbeddings, currentImageUrl,
                       isProcessingImage>>
        /\ UNCHANGED <<workerVars, viewerVars, buildVars, editorVars>>

(* this.imageEmbeddings = await this.model.get_image_embeddings(...), then *)
(* the finally block, then the promise resolves.                           *)
EmbeddingsDone ==
    \E i \in 1..Len(samCalls) :
        /\ samCalls[i].pc = "embeddings"
        /\ imageEmbeddings' = <<samCalls[i].url>>
        /\ isProcessingImage' = FALSE
        /\ samCalls' = [samCalls EXCEPT ![i].pc = "resolved"]
        /\ UNCHANGED <<ready, imageInputs, currentImageUrl>>
        /\ UNCHANGED <<workerVars, viewerVars, buildVars, editorVars>>

(* Any awaited step throws: the finally block clears the flag and the      *)
(* promise rejects; currentImageUrl keeps the URL set at entry.            *)
Throws ==
    \E i \in 1..Len(samCalls) :
        /\ samCalls[i].pc \in Awaiting
        /\ isProcessingImage' = FALSE
        /\ samCalls' = [samCalls EXCEPT ![i].pc = "rejected"]
        /\ UNCHANGED <<ready, imageInputs, imageEmbeddings, currentImageUrl>>
        /\ UNCHANGED <<workerVars, viewerVars, buildVars, editorVars>>

CallReset ==
    /\ Len(samCalls) < MaxSamCalls
    /\ imageInputs' = <<>>
    /\ imageEmbeddings' = <<>>
    /\ currentImageUrl' = <<>>
    /\ samCalls' = Append(samCalls, SamCall("reset", "", "resolved"))
    /\ UNCHANGED <<ready, isProcessingImage>>
    /\ UNCHANGED <<workerVars, viewerVars, buildVars, editorVars>>

(* generateMask up to its first await: throws when there are no inputs or  *)
(* no embeddings, otherwise hands the embeddings it finds to the model.    *)
CallGenerateMask ==
    /\ Len(samCalls) < MaxSamCalls
    /\ IF imageInputs = <<>> \/ imageEmbeddings = <<>>
       THEN samCalls' = Append(samCalls,
                               SamCall("generateMask", "", "rejected"))
       ELSE samCalls' = Append(samCalls,
                               SamCall("generateMask", imageEmbeddings[1],
                                       "mask"))
    /\ UNCHANGED <<ready, imageInputs, imageEmbeddings, currentImageUrl,
                   isProcessingImage>>
    /\ UNCHANGED <<workerVars, viewerVars, buildVars, editorVars>>

(* await this.model(...) and post_process_masks returned: generateMask     *)
(* writes no field of the worker.                                          *)
MaskDone ==
    \E i \in 1..Len(samCalls) :
        /\ samCalls[i].pc = "mask"
        /\ samCalls' = [samCalls EXCEPT ![i].pc = "resolved"]
        /\ UNCHANGED <<ready, imageInputs, imageEmbeddings, currentImageUrl,
                       isProcessingImage>>
        /\ UNCHANGED <<workerVars, viewerVars, buildVars, editorVars>>

InitSam ==
    /\ NoWorker
    /\ NoViewer
    /\ NoBuild
    /\ NoEditor
    /\ NoSam

NextSam ==
    \/ CallProcessImage
    \/ CallReset
    \/ InitializeDone
    \/ ReadDone
    \/ ProcessorDone
    \/ EmbeddingsDone
    \/ Throws
    \/ CallGenerateMask
    \/ MaskDone

SpecSam == InitSam /\ [][NextSam]_vars

(* Call i's promise resolves in this step.                                 *)
Resolves(i) ==
    /\ samCalls'[i].op = "processImage"
    /\ samCalls'[i].pc = "resolved"
    /\ i > Len(samCalls) \/ samCalls[i].pc # "resolved"

(* C17: whenever a processImage(url) promise resolves, the worker holds    *)
(* embeddings computed from url, also when another processImage call was   *)
(* in flight at the time of the call.                                      *)
C17_ResolvedMeansEmbedded ==
    [][\A i \in 1..Len(samCalls') :
          Resolves(i) => imageEmbeddings' = <<samCalls'[i].url>>]_vars

C18_WitnessExactFit ==
    /\ gridArea # <<>>
    /\ Len(input.outlines) = 1
    /\ gridArea[1] = CombinedBounds(input.outlines)

(***************************************************************************)
(* Where an outline is: the 2D view draws it under translate(position)     *)
(* rotate(rotation), so dragging it changes position alone.                *)
(***************************************************************************)
MoveVectors == {Pt(4200, 0 - 1000), Pt(0 - 300, 8400)}

Moved(outline, v) ==
    [outline EXCEPT !.position =
        Pt(outline.position.x + v.x, outline.position.y + v.y)]

Translated(bounds, v) ==
    [minX |-> bounds.minX + v.x, minY |-> bounds.minY + v.y,
     maxX |-> bounds.maxX + v.x, maxY |-> bounds.maxY + v.y]

(* C19: the bounds calculateMinimalGridArea takes for an outline are its   *)
(* world-space bounds: an unrotated w x h rectangle at p has bounds        *)
(* [p.x - w/2, p.x + w/2] x [p.y - h/2, p.y + h/2], and moving any outline *)
(* by a vector moves its bounds by that vector.                            *)
C19_BoundsAreWorldSpace ==
    gridArea # <<>> =>
        \A o \in Range(input.outlines) :
            /\ (o.type = "roundedRect" /\ o.rotation = 0) =>
                  OutlineBounds(o) =
                     [minX |-> o.position.x - o.width \div 2,
                      minY |-> o.position.y - o.height \div 2,
                      maxX |-> o.position.x + o.width \div 2,
                      maxY |-> o.position.y + o.height \div 2]
            /\ \A v \in MoveVectors :
                  OutlineBounds(Moved(o, v)) = Translated(OutlineBounds(o), v)

(* C20: the XY box of every cutout, as createCutoutExtrusion_ places it,   *)
(* lies inside the wall blank [-width/2, width/2] x [-height/2, height/2]  *)
(* built from the same outline list.                                       *)
C20_CutoutsInsideBlank ==
    finalModel # <<>> =>
        \A i \in 1..Len(finalModel[1].walls.cuts) :
            LET cutout == CutoutXY(finalModel[1].walls.cuts[i])
                blank == BlankXY(finalModel[1].walls)
            IN  /\ blank.x0 <= cutout.x0 /\ cutout.x1 <= blank.x1
                /\ blank.y0 <= cutout.y0 /\ cutout.y1 <= blank.y1

(***************************************************************************)
(* Where a cutout sits in the wall.                                        *)
(***************************************************************************)
(* C21: in wall-local coordinates every cutout occupies exactly            *)
(* [wallHeight - d, wallHeight] with d = min(outline.depth, wallHeight):   *)
(* it starts at the wall's top face, never goes below the wall's bottom    *)
(* face, and an outline of depth 0 removes nothing.  Stated for outlines   *)
(* that carry a depth, in bins whose wall has a height.                    *)
C21_CutoutFromTopFace ==
    (finalModel # <<>> /\
     WallHeight(input.totalHeight, input.baseHeight) >= 0) =>
        LET wallHeight == WallHeight(input.totalHeight, input.baseHeight)
        IN  \A i \in 1..Len(input.outlines) :
               input.outlines[i].depth # <<>> =>
                  LET d == MathMin(input.outlines[i].depth[1], wallHeight)
                      cut == finalModel[1].walls.cuts[i]
                  IN  /\ ExtrusionZ(cut) = [lo |-> wallHeight - d,
                                            hi |-> wallHeight]
                      /\ ExtrusionZ(cut).lo >= 0
                      /\ input.outlines[i].depth[1] = 0 =>
                            BoxVolume(CutoutBox(cut)) = 0

(***************************************************************************)
(* The tiles of the base.  A tile is a base unit of outer size GRID_SIZE - *)
(* TOLERANCE translated to its centre; the bottom plate is the rounded     *)
(* rectangle of the grid area, centred on the origin.                      *)
(***************************************************************************)
TileBox(t) ==
    [x0 |-> t.x - (GRID_SIZE - TOLERANCE) \div 2,
     x1 |-> t.x + (GRID_SIZE - TOLERANCE) \div 2,
     y0 |-> t.y - (GRID_SIZE - TOLERANCE) \div 2,
     y1 |-> t.y + (GRID_SIZE - TOLERANCE) \div 2]

BottomXY(base) == LocalBox(base.bottom.profile)

(* t and u are neighbours along X (along Y): same row, no tile between.    *)
NextAlongX(tiles, t, u) ==
    /\ t.y = u.y /\ t.x < u.x
    /\ ~\E w \in tiles : w.y = t.y /\ t.x < w.x /\ w.x < u.x

NextAlongY(tiles, t, u) ==
    /\ t.x = u.x /\ t.y < u.y
    /\ ~\E w \in tiles : w.x = t.x /\ t.y < w.y /\ w.y < u.y

(* C22: the tiles are centred on the grid area and span it exactly: the    *)
(* outermost tile edges are at -W/2 and +W/2 (-H/2 and +H/2), every tile   *)
(* lies inside the bottom plate's footprint, and neighbouring tiles are    *)
(* TOLERANCE apart.                                                        *)
C22_TilesSpanGridArea ==
    finalModel # <<>> =>
        LET tiles == finalModel[1].base.tiles
            W == BuiltArea.max.x - BuiltArea.min.x
            H == BuiltArea.max.y - BuiltArea.min.y
            plate == BottomXY(finalModel[1].base)
        IN  /\ tiles # {}
            /\ SetMin({TileBox(t).x0 : t \in tiles}) * 2 = 0 - W
            /\ SetMax({TileBox(t).x1 : t \in tiles}) * 2 = W
            /\ SetMin({TileBox(t).y0 : t \in tiles}) * 2 = 0 - H
            /\ SetMax({TileBox(t).y1 : t \in tiles}) * 2 = H
            /\ plate.x1 - plate.x0 = W /\ plate.y1 - plate.y0 = H
            /\ \A t \in tiles :
                  /\ plate.x0 <= TileBox(t).x0 /\ TileBox(t).x1 <= plate.x1
                  /\ plate.y0 <= TileBox(t).y0 /\ TileBox(t).y1 <= plate.y1
            /\ \A t, u \in tiles :
                  /\ NextAlongX(tiles, t, u) =>
                        TileBox(u).x0 - TileBox(t).x1 = TOLERANCE
                  /\ NextAlongY(tiles, t, u) =>
                        TileBox(u).y0 - TileBox(t).y1 = TOLERANCE

C22_Witness ==
    /\ finalModel # <<>>
    /\ finalModel[1].base.numUnitsX = 2
    /\ finalModel[1].base.numUnitsY = 4
    /\ \E t, u \in finalModel[1].base.tiles :
          NextAlongX(finalModel[1].base.tiles, t, u)
    /\ \E t, u \in finalModel[1].base.tiles :
          NextAlongY(finalModel[1].base.tiles, t, u)

(***************************************************************************)
(* The spline profile of a cutout against the editor's path.               *)
(***************************************************************************)
(* Where segment i of a sketch starts: the previous segment's end.         *)
SegmentStart(sketch, i) ==
    IF i = 1 THEN sketch.start ELSE sketch.curves[i - 1].end

(* C23: for a spline outline with n >= 3 points the worker's profile has   *)
(* exactly n cubic segments, segment i running from point i to point       *)
(* (i mod n) + 1, so the knots are the points in order and the last        *)
(* segment ends at the first point; and every (end, control 1, control 2)  *)
(* triple is that of generateSplinePath with X negated.                    *)
C23_SplineProfileMatchesEditor ==
    finalModel # <<>> =>
        \A k \in 1..Len(input.outlines) :
            (input.outlines[k].type = "spline" /\
             Len(input.outlines[k].points) >= 3) =>
                LET points == input.outlines[k].points
                    n == Len(points)
                    sketch ==
                        finalModel[1].walls.cuts[k].profile.profile.sketch
                    path == generateSplinePath(points)[1]
                IN  /\ DOMAIN sketch.curves = 1..n
                    /\ sketch.closed
                    /\ \A i \in 1..n :
                          /\ SegmentStart(sketch, i) = MirrorX(points[i])
                          /\ sketch.curves[i].end =
                                MirrorX(points[(i % n) + 1])
                          /\ sketch.curves[i].end =
                                MirrorX(path.curves[i].end)
                          /\ sketch.curves[i].cp1 =
                                MirrorX(path.curves[i].cp1)
                          /\ sketch.curves[i].cp2 =
                                MirrorX(path.curves[i].cp2)
                    /\ sketch.curves[n].end = sketch.start

(* A three-point and a four-point spline cut in the same bin, with a       *)
(* control point off its knot.                                             *)
C23_Witness ==
    /\ finalModel # <<>>
    /\ Len(input.outlines) = 2
    /\ input.outlines[1].type = "spline" /\ Len(input.outlines[1].points) = 3
    /\ input.outlines[2].type = "spline" /\ Len(input.outlines[2].points) = 4
    /\ LET sketch == finalModel[1].walls.cuts[1].profile.profile.sketch
       IN  /\ Len(sketch.curves) = 3
           /\ sketch.curves[1].cp1 # sketch.start
           /\ sketch.curves[1].cp1.x # 0 - sketch.curves[1].cp1.x

(***************************************************************************)
(* The caches against the builders they wrap.                              *)
(***************************************************************************)
(* What the wrapped builder of a layer returns, run afresh on the          *)
(* arguments a key was made from.                                          *)
Unmemoized(layer, key) ==
    IF layer = "cutout"
    THEN createCutoutExtrusion_(key[1], key[2], key[3], key[4])
    ELSE IF layer = "unit"
    THEN createBaseUnit_(key[1], key[2], key[3])
    ELSE IF layer = "base"
    THEN createBase_(EmptyMemo, key[1], key[2], key[3], key[4]).value
    ELSE FreshBin(key[1], key[2], key[3])

(* C24: memoization is sound.  Every step leaves the caches and the log    *)
(* sound: an entry a step adds to a cache, or changes in it, is the solid  *)
(* its un-memoized builder returns for the entry's arguments, and a solid  *)
(* createBin hands to a request in the step, from the cache or not, is     *)
(* the solid the un-memoized pipeline builds for that request's arguments. *)
(* The caches and the log start empty.                                     *)
C24_MemoizationSound ==
    [][/\ \A layer \in {"cutout", "unit", "base", "bin"} :
             \A key \in DOMAIN memo'[layer] :
                 (key \notin DOMAIN memo[layer]
                     \/ memo'[layer][key] # memo[layer][key]) =>
                     memo'[layer][key] = Unmemoized(layer, key)
       /\ \A k \in 1..Len(log') :
             ((k > Len(log) \/ log'[k] # log[k])
                 /\ log'[k].op = "createBin") =>
                 log'[k].solid = FreshBin(calls'[log'[k].call].outlines,
                                          calls'[log'[k].call].totalHeight,
                                          calls'[log'[k].call].baseHeight)]_vars

(* A request served from the bin cache after a request with other          *)
(* arguments was built in between, and a cutout served from its cache      *)
(* inside a bin that had to be built.                                      *)
C24_Witness ==
    \E i, j, k \in 1..Len(log) :
        /\ i < j /\ j < k
        /\ log[i].op = "createBin" /\ ~log[i].cached
        /\ log[j].op = "createBin" /\ ~log[j].cached
        /\ log[k].op = "createBin" /\ log[k].cached
        /\ log[k].solid = log[i].solid
        /\ log[j].solid # log[i].solid
        /\ \A e \in Range(log[j].built) : e[1] # "base"

(***************************************************************************)
(* The order of kernel work.  memo.trace is the order in which the         *)
(* builders ran in the kernel; each log entry is the synchronous createBin *)
(* of one request, with the builders it ran.                               *)
(***************************************************************************)
RECURSIVE BuiltUpTo(_)
BuiltUpTo(k) == IF k = 0 THEN <<>> ELSE BuiltUpTo(k - 1) \o log[k].built

Assembles(entry) == entry.op \in {"createBin", "createBinThrew"}

Overlapping(i, j) ==
    /\ i < j
    /\ BuildOp(calls[i]) /\ BuildOp(calls[j])
    /\ calls[i].awaits # 0
    /\ calls[j].inFlight = calls[i].awaits

(* C25: kernel work is serialized across requests.  The builders ran in    *)
(* the kernel in the order of the log, one request's createBin after the   *)
(* other with nothing of another request in between; no request's          *)
(* createBin ran twice, and a request's mesh or export follows its own     *)
(* createBin.                                                              *)
C25_KernelSerialized ==
    /\ BuiltUpTo(Len(log)) = memo.trace
    /\ \A k, m \in 1..Len(log) :
          (log[k].call = log[m].call /\
           Assembles(log[k]) = Assembles(log[m])) => k = m
    /\ \A k \in 1..Len(log) :
          ~Assembles(log[k]) =>
              \E m \in 1..(k - 1) :
                  log[m].call = log[k].call /\ log[m].op = "createBin"

(* Two requests in flight at once, each of which then built something.     *)
C25_Witness ==
    \E i, j \in 1..Len(calls) :
        /\ Overlapping(i, j)
        /\ \E k, m \in 1..Len(log) :
              /\ k < m
              /\ log[k].call = i /\ log[k].built # <<>>
              /\ log[m].call = j /\ log[m].built # <<>>

(***************************************************************************)
(* C26: for 0 < baseHeight < totalHeight the four sections of the base     *)
(* unit's loft are at non-increasing heights in loft order:                *)
(* top = baseHeight >= middle = baseHeight - 2.15 >= flat =                *)
(* baseHeight - 3.95 >= bottom = 0.                                        *)
(***************************************************************************)
SectionHeights(unit) == [k \in 1..Len(unit.sections) |-> unit.sections[k].z]

C26_SectionsInLoftOrder ==
    (finalModel # <<>> /\ 0 < input.baseHeight /\
     input.baseHeight < input.totalHeight) =>
        LET z == SectionHeights(finalModel[1].base.unit)
        IN  /\ Len(z) = 4
            /\ z[1] = input.baseHeight
            /\ z[2] = input.baseHeight - 215
            /\ z[3] = input.baseHeight - 395
            /\ z[4] = 0
            /\ \A k \in 1..3 : z[k] >= z[k + 1]

(***************************************************************************)
(* C27: in the segmentation worker, whenever no call is in flight,         *)
(* imageEmbeddings is non-null and currentImageUrl names an image, the     *)
(* embeddings were computed from that image.                               *)
(***************************************************************************)
Settled == \A i \in 1..Len(samCalls) : samCalls[i].pc \in {"resolved", "rejected"}

C27_EmbeddingsMatchCurrentUrl ==
    (Settled /\ imageEmbeddings # <<>> /\ currentImageUrl # <<>>) =>
        imageEmbeddings = currentImageUrl

(***************************************************************************)
(* The keyboard shortcuts of App.tsx over the outline store.  An outline   *)
(* of the store carries an optional name: <<>> while it was never named    *)
(* (addRoundedRect sets none), <<words>> once updateOutline set one.  A    *)
(* name is the sequence of its words.                                      *)
(***************************************************************************)
MaxRects == 3

OutlineIds == <<"o1", "o2", "o3">>

OutlineNames == {<<"Box">>, <<"Tray">>}

Named(o, name) ==
    [type |-> o.type, id |-> o.id, width |-> o.width, height |-> o.height,
     radius |-> o.radius, position |-> o.position, rotation |-> o.rotation,
     depth |-> o.depth, points |-> o.points, bulge |-> o.bulge,
     selected |-> o.selected, name |-> name]

(* store.addRoundedRect(width, height, radius, position): a fifth argument *)
(* is dropped, the new outline has no name and is not selected.            *)
addRoundedRect(list, width, height, radius, position) ==
    Append(list, Named(RoundedRect(OutlineIds[Len(list) + 1], width, height,
                                   radius, position.x, position.y, 0, <<>>),
                       <<>>))

(* store.updateOutline(id, { name })                                       *)
updateOutlineName(list, id, name) ==
    [k \in 1..Len(list) |->
        IF list[k].id # id THEN list[k] ELSE Named(list[k], <<name>>)]

(* store.selectOutline(id): a plain click.                                 *)
selectOutline(list, id) ==
    [k \in 1..Len(list) |-> [list[k] EXCEPT !.selected = (list[k].id = id)]]

(* `${name} (copy)`: an undefined name is printed as "undefined".          *)
CopyName(name) ==
    Append(IF name = <<>> THEN <<"undefined">> ELSE name[1], "(copy)")

(* outlines.find(o => o.selected)                                          *)
FirstSelected(list) ==
    LET hits == {k \in 1..Len(list) : list[k].selected}
    IN  IF hits = {} THEN 0 ELSE CHOOSE k \in hits : \A m \in hits : k <= m

(* handleAddRoundedRect: addRoundedRect(80, 60, 15)                        *)
HandleAddRoundedRect ==
    /\ Len(outlines) < MaxRects
    /\ outlines' = addRoundedRect(outlines, 8000, 6000, 1500, Pt(0, 0))
    /\ UNCHANGED <<binHeight, userAdjustedHeight, queries, pending, issued,
                   answered>>
    /\ UNCHANGED <<workerVars, buildVars, editorVars, samVars>>

HandleObjectClick ==
    /\ \E k \in 1..Len(outlines) :
          /\ ~outlines[k].selected
          /\ outlines' = selectOutline(outlines, outlines[k].id)
    /\ UNCHANGED <<binHeight, userAdjustedHeight, queries, pending, issued,
                   answered>>
    /\ UNCHANGED <<workerVars, buildVars, editorVars, samVars>>

(* handleNameBlur / handleRename: a new, non-empty name typed in the list. *)
HandleRename ==
    /\ \E k \in 1..Len(outlines), name \in OutlineNames :
          /\ outlines[k].name # <<name>>
          /\ outlines' = updateOutlineName(outlines, outlines[k].id, name)
    /\ UNCHANGED <<binHeight, userAdjustedHeight, queries, pending, issued,
                   answered>>
    /\ UNCHANGED <<workerVars, buildVars, editorVars, samVars>>

(* handleKeyDown, Ctrl+D with a rounded rectangle selected.  `outlines` in *)
(* the handler is the array of the render that registered it: the store's  *)
(* outlines before addRoundedRect ran.                                     *)
Duplicated(rendered, selected) ==
    LET added == addRoundedRect(rendered, selected.width, selected.height,
                                selected.radius,
                                Pt(selected.position.x + 1000,
                                   selected.position.y + 1000))
        newRectId == rendered[Len(rendered)].id
    IN  updateOutlineName(added, newRectId, CopyName(selected.name))

HandleCtrlD ==
    /\ Len(outlines) < MaxRects
    /\ FirstSelected(outlines) # 0
    /\ outlines[FirstSelected(outlines)].type = "roundedRect"
    /\ outlines' = Duplicated(outlines, outlines[FirstSelected(outlines)])
    /\ UNCHANGED <<binHeight, userAdjustedHeight, queries, pending, issued,
                   answered>>
    /\ UNCHANGED <<workerVars, buildVars, editorVars, samVars>>

InitKeys ==
    /\ NoWorker
    /\ NoViewer
    /\ NoBuild
    /\ NoEditor
    /\ NoSam

NextKeys ==
    \/ HandleAddRoundedRect
    \/ HandleObjectClick
    \/ HandleRename
    \/ HandleCtrlD

SpecKeys == InitKeys /\ [][NextKeys]_vars

(* C28: Ctrl+D on a selected rounded rectangle appends exactly one         *)
(* outline, the new outline is named '<original name> (copy)', and the     *)
(* names of the outlines that existed before are unchanged.                *)
C28_DuplicateNamesTheCopy ==
    [][HandleCtrlD =>
          /\ Len(outlines') = Len(outlines) + 1
          /\ outlines'[Len(outlines')].name =
                <<CopyName(outlines[FirstSelected(outlines)].name)>>
          /\ \A k \in 1..Len(outlines) :
                outlines'[k].name = outlines[k].name]_vars

(***************************************************************************)
(* C29: while the user has not adjusted the bin height, the viewer's       *)
(* height is the default ceil((maxDepth + 1 + 4.75) / 7) * 7, the wall     *)
(* height it gives is at least every outline's requested depth, and no     *)
(* cutout depth is clamped: min(depth, wallHeight) = depth.                *)
(***************************************************************************)
C29_DefaultHeightNeverClamps ==
    (~userAdjustedHeight /\ Len(outlines) > 0) =>
        /\ binHeight = calculateDefaultBinHeight(outlines)
        /\ \A i \in 1..Len(outlines) :
              /\ WallHeight(binHeight, 475) >= DesiredDepth(outlines[i])
              /\ CutoutDepth(outlines[i], WallHeight(binHeight, 475)) =
                    DesiredDepth(outlines[i])

(* Both a depth that fills the default wall exactly (15.25 over a wall of  *)
(* 21 - 5.75) and a depth that moved the default to the next unit.         *)
C29_Witness ==
    /\ ~userAdjustedHeight
    /\ \E i \in 1..Len(outlines) :
          /\ outlines[i].depth = <<2200>>
          /\ binHeight = 2800
    /\ \E i \in 1..Len(outlines) : outlines[i].depth = <<>>

C29_WitnessExactFit ==
    /\ ~userAdjustedHeight
    /\ Len(outlines) > 0
    /\ \A i \in 1..Len(outlines) : outlines[i].depth = <<1525>>
    /\ WallHeight(binHeight, 475) = 1525

(***************************************************************************)
(* C30: the grid units shown by the properties panel,                      *)
(* floor((binWidth + TOLERANCE) / GRID_SIZE) and the same for binHeight,   *)
(* equal the tile counts numUnitsX = round(width / GRID_SIZE) and          *)
(* numUnitsY of the model the worker builds from the same outline list.    *)
(***************************************************************************)
(* Math.floor(binWidth / GRID_SIZE), the tolerance not applied.            *)
GridUnits_NoTolerance(length) == MathFloor(length, GRID_SIZE)

(* gridUnitsWidth / gridUnitsHeight of PropertiesPanel                     *)
GridUnits(length) == MathFloor(length + TOLERANCE, GRID_SIZE)

gridUnitsWidth == GridUnits(gridArea[1].max.x - gridArea[1].min.x)

gridUnitsHeight == GridUnits(gridArea[1].max.y - gridArea[1].min.y)

C30_PanelUnitsMatchModel ==
    /\ gridArea # <<>> =>
          /\ gridUnitsWidth = NumUnits(gridArea[1].max.x - gridArea[1].min.x)
          /\ gridUnitsHeight = NumUnits(gridArea[1].max.y - gridArea[1].min.y)
    /\ (gridArea # <<>> /\ finalModel # <<>>) =>
          /\ gridUnitsWidth = finalModel[1].base.numUnitsX
          /\ gridUnitsHeight = finalModel[1].base.numUnitsY

C30_Witness ==
    /\ gridArea # <<>>
    /\ finalModel # <<>>
    /\ gridUnitsWidth = 2
    /\ gridUnitsHeight = 4
    /\ finalModel[1].base.numUnitsX = gridUnitsWidth
    /\ finalModel[1].base.numUnitsY = gridUnitsHeight

=============================================================================
